---- MODULE Spec2Model ----
(***************************************************************************)
(* Risk gate (src/risk_manager.py) and order lifecycle manager             *)
(* (src/trade_executor.py) of the trading bot, its price feed              *)
(* (src/websocket_price_feed.py), the rolling window of the market         *)
(* listener (src/modules/fast_market_listener.py), the handlers of the     *)
(* bot that trade on a price update                                        *)
(* (src/websocket_integration_example.py), the order book engine           *)
(* (src/modules/orderbook_engine.py) and the signal fusion                 *)
(* (src/strategy_manager.py, src/python_api/routers/alpha_signals.py).     *)
(*                                                                         *)
(* Specifications: SpecGate (the gate alone), SpecChecks (its checks over  *)
(* a wider grid), Spec (the executor), SpecPositions (position             *)
(* accounting), SpecListener (the rolling window), SpecFeed and            *)
(* SpecFeedLive (the listen/reconnect loop), SpecIngest (message handling  *)
(* of feed and listener), SpecBot (handlers on the event loop), SpecBook   *)
(* (the order book), SpecExpansion (the expansion signal), SpecFusion (the *)
(* fusion), SpecTasks (get_signal calls on the shared listener),           *)
(* SpecSamePrice (position accounting at one fill price), SpecRouting (the *)
(* symbol a sample is recorded under).                                     *)
(*                                                                         *)
(* Conventions                                                             *)
(*  - A Python Optional is a sequence of length 0 (None / key missing) or  *)
(*    1 (the value).                                                       *)
(*  - Money (balances, amounts, prices, profit and loss) is in cents, so   *)
(*    that 30% and 95% of a balance are whole numbers: 100000 is 1000.00.  *)
(*    Fractions of the configuration are integer percents (0.25 is 25),    *)
(*    market volatility, open-interest change and sentiment score are      *)
(*    integer hundredths.  The value grids below are chosen so that the    *)
(*    float comparisons of the source agree with the exact comparisons     *)
(*    made here (0.1*0.7 is 0.0699999... as a float, so a volatility of    *)
(*    exactly 0.07 is kept off the grid).                                  *)
(*  - Python dicts are shared by reference: an order stored in             *)
(*    active_orders and in order_history is ONE object.  order_history     *)
(*    holds the objects, active_orders maps an id to the index of the      *)
(*    object in order_history.                                             *)
(*  - The execution latency that execute_trade measures and logs is not    *)
(*    modelled, and a call reads the clock once.                           *)
(*  - A coroutine is a position (pc) that moves from await to await: the   *)
(*    event loop runs one coroutine at a time and switches only at an      *)
(*    await.                                                               *)
(***************************************************************************)
EXTENDS Integers, Sequences, FiniteSets, TLC

\* TLC keeps the fields of a record in the order in which their names first
\* occur in the module.  The names are listed here once, sorted, and every
\* record below lists its fields in this order: a record is in normal form
\* as it is built, and the workers of TLC never reorder a shared record.
FieldNames ==
    [a |-> 1, about |-> 2, action |-> 3, active_orders |-> 4,
     adjusted_trade |-> 5, allowed |-> 6, alt_data |-> 7, amount |-> 8,
     approved |-> 9, b |-> 10, balance |-> 11, buy_wall |-> 12,
     cancelled_at |-> 13, checked_on |-> 14, checks |-> 15,
     components |-> 16, confidence |-> 17, created_on |-> 18,
     daily_stats |-> 19, delivered |-> 20, details |-> 21,
     entry_price |-> 22, envelope |-> 23, error |-> 24, errors |-> 25,
     exchange |-> 26, filled_price |-> 27, gate |-> 28, id |-> 29,
     imbalance |-> 30, inserted |-> 31, is_connected |-> 32,
     is_trading_paused |-> 33, json |-> 34, kind |-> 35, last_reset |-> 36,
     loss |-> 37, market_data |-> 38, max_daily_loss_percentage |-> 39,
     max_daily_trades |-> 40, max_position_size_percentage |-> 41,
     microstructure |-> 42, module_count |-> 43, module_signals |-> 44,
     ms |-> 45, now |-> 46, nudge |-> 47, oi_data |-> 48, op |-> 49,
     options_flow |-> 50, order |-> 51, order_history |-> 52,
     order_id |-> 53, outcomes |-> 54, overlap |-> 55, pair |-> 56,
     pause_reason |-> 57, payload |-> 58, pc |-> 59, pct |-> 60,
     portfolio |-> 61, positionSize |-> 62, positions |-> 63, pre |-> 64,
     price |-> 65, price_data |-> 66, price_history |-> 67,
     price_kind |-> 68, prices |-> 69, profit_loss |-> 70, raised |-> 71,
     reason |-> 72, received |-> 73, reconnect_attempts |-> 74, ref |-> 75,
     req |-> 76, result |-> 77, s |-> 78, sell_wall |-> 79,
     sentiment_data |-> 80, shape |-> 81, signal |-> 82, size |-> 83,
     speed |-> 84, stamps |-> 85, start_balance |-> 86, status |-> 87,
     stopLoss |-> 88, stop_loss |-> 89, stop_trading_on_loss |-> 90,
     stream |-> 91, subscriptions |-> 92, success |-> 93, symbol |-> 94,
     takeProfit |-> 95, take_profit |-> 96, text |-> 97,
     threshold_percent |-> 98, timestamp |-> 99, timestamp_history |-> 100,
     total_cost |-> 101, trade |-> 102, trades |-> 103,
     triggered_orders |-> 104, type |-> 105, value |-> 106,
     volatility |-> 107, volatility_threshold |-> 108, walls |-> 109,
     warnings |-> 110, websocket |-> 111, weights |-> 112, ws |-> 113]

VARIABLES
    config,             \* RiskManager.config
    daily_stats,        \* RiskManager.daily_stats
    is_trading_paused,  \* RiskManager.is_trading_paused
    pause_reason,       \* RiskManager.pause_reason
    today,              \* calendar date of datetime.now(), as a day number
    now_ms,             \* int(time.time() * 1000)
    risk_manager,       \* TradeExecutor.risk_manager is set
    exchange_client,    \* TradeExecutor.exchange_client is set
    active_orders,      \* TradeExecutor.active_orders
    order_history,      \* TradeExecutor.order_history
    positions,          \* TradeExecutor.positions
    last,               \* the last call: operation, arguments, state before it
    result,             \* what the last call returned
    updates,            \* _update_positions calls made on their own
    listener_exchange,  \* FastMarketListener.exchange
    price_history,      \* FastMarketListener.price_history
    timestamp_history,  \* FastMarketListener.timestamp_history
    wall,               \* time.time(), in seconds
    exchange,           \* WebSocketPriceFeed.exchange
    websocket,          \* WebSocketPriceFeed.websocket: "none", "open", "closed"
    is_connected,       \* WebSocketPriceFeed.is_connected
    is_running,         \* WebSocketPriceFeed.is_running
    reconnect_attempts, \* WebSocketPriceFeed.reconnect_attempts
    subscriptions,      \* WebSocketPriceFeed.subscriptions, keys in insertion order
    price_data,         \* WebSocketPriceFeed.price_data
    delivered,          \* the calls made to the registered callbacks
    feed_pc,            \* where the listen() coroutine of the feed stands
    feed_event,         \* the last thing the listen() coroutine did
    bot_portfolio,      \* TradingBotWithWebSocket.portfolio
    requests,           \* price updates whose handler has not run yet
    inflight,           \* handlers suspended in the middle of a trade
    handled,            \* the handlers that ran, in the order they completed
    book_exchange,      \* OrderBookEngine.exchange
    bids,               \* OrderBookEngine.bids
    asks,               \* OrderBookEngine.asks
    imported,           \* the alpha modules whose import succeeded
    listener_websocket, \* FastMarketListener.websocket: 0 (None) or a connection
    listener_connected, \* FastMarketListener.is_connected
    listener_stream,    \* the symbol in the URL self.websocket was opened with
    opened,             \* connections the listener opened so far
    signal_tasks        \* the get_signal calls on the shared listener

gateVars == <<config, daily_stats, is_trading_paused, pause_reason>>
clockVars == <<today, now_ms>>
execVars == <<risk_manager, exchange_client, active_orders, order_history, positions>>
listenerVars == <<listener_exchange, price_history, timestamp_history, wall>>
feedVars == <<exchange, websocket, is_connected, is_running, reconnect_attempts,
              subscriptions, price_data, delivered, feed_pc, feed_event>>
botVars == <<bot_portfolio, requests, inflight, handled>>
taskVars == <<listener_websocket, listener_connected, listener_stream, opened,
              signal_tasks>>
signalVars == <<book_exchange, bids, asks, imported, taskVars>>
\* the variables outside the risk gate and the order lifecycle manager
auxVars == <<updates, listenerVars, feedVars, botVars, signalVars>>
vars == <<config, daily_stats, is_trading_paused, pause_reason, today, now_ms,
          risk_manager, exchange_client, active_orders, order_history,
          positions, last, result, auxVars>>

---------------------------------------------------------------------------
(* Bounds *)

MaxDay == 1         \* days the clock can advance
MaxMs == 1          \* milliseconds the clock can advance
MaxTrades == 2      \* record_trade calls counted per day
MaxOrders == 2      \* orders created by execute_trade
MaxUpdates == 3     \* _update_positions calls made on their own
MaxTime == 3        \* seconds the wall clock can advance
window_seconds == 2 \* FastMarketListener.window_seconds, 30 in the source
maxlen == 3         \* length limit of the rolling window, 1000 in the source
max_reconnect_attempts == 2 \* WebSocketPriceFeed.max_reconnect_attempts, 10 in the source
MaxDelivered == 2   \* price updates handed to the callbacks

---------------------------------------------------------------------------
(* Python values *)

None == <<>>
Some(v) == <<v>>

\* bool(x) of an optional number: None and 0 are falsy
Truthy(o) == o # None /\ o[1] # 0

\* dict.get(key, default)
Get(o, default) == IF o = None THEN default ELSE o[1]

Max(a, b) == IF a >= b THEN a ELSE b

\* n/d >= p/q and n/d > p/q for d # 0, q > 0 (true division, then compare)
RatGE(n, d, p, q) == IF d > 0 THEN n * q >= p * d ELSE n * q <= p * d
RatGT(n, d, p, q) == IF d > 0 THEN n * q > p * d ELSE n * q < p * d

\* f"{x*100:.2f}" of x = n/d, n >= 0, d > 0, as hundredths of a percent
Pct2f(n, d) == (2 * n * 10000 + d) \div (2 * d)

---------------------------------------------------------------------------
(* RiskManager *)

\* the float literals of run_safety_checks, in the units of this module
OI_REJECT == -15
OI_WARN == -10
SENTIMENT_REJECT == -30
SENTIMENT_WARN == -20
OVER_BALANCE_PCT == 95

default_config(limit, stop) ==
    [max_daily_loss_percentage |-> 25,
     max_daily_trades |-> limit,
     max_position_size_percentage |-> 30,
     stop_trading_on_loss |-> stop,
     volatility_threshold |-> 10]

\* the state of a RiskManager as one value
Gate(stats, paused, reason) ==
    [daily_stats |-> stats, is_trading_paused |-> paused, pause_reason |-> reason]

CurrentGate == Gate(daily_stats, is_trading_paused, pause_reason)

reset_daily_stats(start_balance, now) ==
    Gate([last_reset |-> now, loss |-> 0, start_balance |-> start_balance, trades |-> 0],
         FALSE, None)

check_daily_reset(g, now) == now # g.daily_stats.last_reset

ManualReason(text) == [pct |-> 0, text |-> text]
LossReason(n, d) == [pct |-> Pct2f(n, d), text |-> "Daily loss limit exceeded"]

Err(kind) == [kind |-> kind, reason |-> None]

NewChecks(trade) ==
    [adjusted_trade |-> trade, allowed |-> TRUE, errors |-> <<>>, warnings |-> <<>>]

\* a rejection that leaves the errors list as it was
Reject_Silent(checks, err) == [checks EXCEPT !.allowed = FALSE]

Reject(checks, err) ==
    [checks EXCEPT !.allowed = FALSE, !.errors = Append(@, err)]

Warn(checks, kind) == [checks EXCEPT !.warnings = Append(@, kind)]

\* a balance check that lets a balance of exactly zero through
BalanceEmpty_NegativeOnly(balance) == balance < 0

\* if balance <= 0 (line 152)
BalanceEmpty(balance) == balance <= 0

\* run_safety_checks from the balance check to the end (lines 151-164)
BalanceChecks(g, checks, amount, balance) ==
    IF BalanceEmpty(balance)
      THEN [checks |-> Reject(checks, Err("balance")), gate |-> g]
      ELSE IF amount > balance
        THEN [checks |-> Warn([Reject(checks, Err("amount_over_balance"))
                                 EXCEPT !.adjusted_trade.amount =
                                            (balance * OVER_BALANCE_PCT) \div 100],
                              "suggested_trade_amount"),
              gate |-> g]
        ELSE [checks |-> checks, gate |-> g]

\* the sentiment check (lines 141-149)
SentimentChecks(g, checks, amount, balance, sentiment_data) ==
    IF sentiment_data # None /\ sentiment_data[1] < SENTIMENT_REJECT
      THEN [checks |-> Reject(checks, Err("sentiment")), gate |-> g]
      ELSE BalanceChecks(g,
             IF sentiment_data # None /\ sentiment_data[1] < SENTIMENT_WARN
               THEN Warn(checks, "negative_sentiment") ELSE checks,
             amount, balance)

\* the open-interest check (lines 131-139)
OIChecks(g, checks, amount, balance, oi_data, sentiment_data) ==
    IF oi_data # None /\ oi_data[1] < OI_REJECT
      THEN [checks |-> Reject(checks, Err("open_interest")), gate |-> g]
      ELSE SentimentChecks(g,
             IF oi_data # None /\ oi_data[1] < OI_WARN
               THEN Warn(checks, "oi_declining") ELSE checks,
             amount, balance, sentiment_data)

\* volatility > threshold, both in hundredths
VolatilityExceeds(volatility, threshold) == volatility > threshold

\* the volatility check (lines 119-129)
VolatilityChecks(g, checks, amount, balance, volatility, oi_data, sentiment_data) ==
    IF VolatilityExceeds(volatility, config.volatility_threshold)
      THEN [checks |-> Reject(checks, Err("volatility")), gate |-> g]
      ELSE OIChecks(g,
             IF volatility * 10 > config.volatility_threshold * 7
               THEN Warn(checks, "high_volatility") ELSE checks,
             amount, balance, oi_data, sentiment_data)

\* loss_percentage >= max_daily_loss_percentage (line 106)
LossLimitReached(current_loss, start_balance) ==
    RatGE(current_loss, start_balance, config.max_daily_loss_percentage, 100)

\* a loss check that rejects and leaves pausing to record_trade
PauseOnLoss_Forgotten(g, current_loss, start_balance) == g

\* the gate after the daily loss limit rejected a trade (lines 110-112)
PauseOnLoss(g, current_loss, start_balance) ==
    IF config.stop_trading_on_loss
      THEN [g EXCEPT !.is_trading_paused = TRUE,
                     !.pause_reason = Some(LossReason(current_loss, start_balance))]
      ELSE g

\* the daily loss check (lines 101-117)
LossChecks(g, checks, amount, balance, volatility, oi_data, sentiment_data) ==
    IF Truthy(g.daily_stats.start_balance)
      THEN LET start_balance == g.daily_stats.start_balance[1]
               current_loss == Max(0, start_balance - balance)
           IN IF LossLimitReached(current_loss, start_balance)
                THEN [checks |-> Reject(checks, Err("daily_loss")),
                      gate |-> PauseOnLoss(g, current_loss, start_balance)]
                ELSE VolatilityChecks(g,
                       IF RatGT(current_loss, start_balance,
                                config.max_daily_loss_percentage * 8, 1000)
                         THEN Warn(checks, "approaching_loss_limit") ELSE checks,
                       amount, balance, volatility, oi_data, sentiment_data)
      ELSE VolatilityChecks(g, checks, amount, balance, volatility, oi_data,
                            sentiment_data)

\* the checks result after the position size check (lines 88-99): the check
\* records its error and suggestion and falls through to the next check
PositionSizeResult(checks, amount, balance) ==
    IF balance > 0 /\ RatGT(amount, balance, config.max_position_size_percentage, 100)
      THEN Warn([Reject(checks, Err("position_size"))
                   EXCEPT !.adjusted_trade.amount =
                              (balance * config.max_position_size_percentage) \div 100],
                "suggested_position_size")
      ELSE checks

\* a rollover that does not compare the dates
Rollover_EveryCall(g, portfolio, now) ==
    IF Truthy(portfolio.balance)
      THEN reset_daily_stats(portfolio.balance, now)
      ELSE g

\* the gate after the daily rollover (lines 78-80)
Rollover(g, portfolio, now) ==
    IF check_daily_reset(g, now) /\ Truthy(portfolio.balance)
      THEN reset_daily_stats(portfolio.balance, now)
      ELSE g

\* daily_stats['trades'] >= max_daily_trades (line 83)
TradeLimitReached(g) == g.daily_stats.trades >= config.max_daily_trades

\* a pause that lapses when the calendar day changes
PauseCheck_ExpiresNextDay(g, now) == g.is_trading_paused /\ ~check_daily_reset(g, now)

\* if self.is_trading_paused (line 73)
PauseCheck(g, now) == g.is_trading_paused

\* a run_safety_checks that rolls the day over before it tests the pause
run_safety_checks_RolloverWhilePaused(g, trade, portfolio, market_data, oi_data, sentiment_data, now) ==
    LET checks == NewChecks(trade)
        g1 == Rollover(g, portfolio, now)
    IN IF PauseCheck(g1, now)
         THEN [checks |-> Reject(checks, [kind |-> "paused", reason |-> g1.pause_reason]),
               gate |-> g1]
         ELSE IF PauseCheck(g, now)
           THEN [checks |-> Reject(checks, [kind |-> "paused", reason |-> g.pause_reason]),
                 gate |-> g1]
           ELSE IF TradeLimitReached(g1)
                   THEN [checks |-> Reject(checks, Err("daily_trades")), gate |-> g1]
                   ELSE LET balance == Get(portfolio.balance, 100)
                            amount == trade.amount
                        IN LossChecks(g1, PositionSizeResult(checks, amount, balance),
                                      amount, balance, market_data.volatility,
                                      oi_data, sentiment_data)

\* run_safety_checks: the result and the gate it leaves
run_safety_checks(g, trade, portfolio, market_data, oi_data, sentiment_data, now) ==
    LET checks == NewChecks(trade)
    IN IF PauseCheck(g, now)
         THEN [checks |-> Reject(checks, [kind |-> "paused", reason |-> g.pause_reason]),
               gate |-> g]
         ELSE LET g1 == Rollover(g, portfolio, now)
              IN IF TradeLimitReached(g1)
                   THEN [checks |-> Reject(checks, Err("daily_trades")), gate |-> g1]
                   ELSE LET balance == Get(portfolio.balance, 100)  \* get('balance', 1)
                            amount == trade.amount
                        IN LossChecks(g1, PositionSizeResult(checks, amount, balance),
                                      amount, balance, market_data.volatility,
                                      oi_data, sentiment_data)

\* a loss counter that nets profits against losses
RecordedLoss_Net(loss, profit_loss) == loss - profit_loss

\* daily_stats['loss'] after a trade (lines 170-171)
RecordedLoss(loss, profit_loss) ==
    IF profit_loss < 0 THEN loss - profit_loss ELSE loss

\* record_trade: the gate it leaves
record_trade(g, profit_loss) ==
    LET loss == RecordedLoss(g.daily_stats.loss, profit_loss)
        g1 == [g EXCEPT !.daily_stats.trades = @ + 1, !.daily_stats.loss = loss]
    IN IF /\ config.stop_trading_on_loss
          /\ Truthy(g.daily_stats.start_balance)
          /\ RatGE(loss, g.daily_stats.start_balance[1],
                   config.max_daily_loss_percentage, 100)
         THEN [g1 EXCEPT !.is_trading_paused = TRUE,
                         !.pause_reason =
                             Some(LossReason(loss, g.daily_stats.start_balance[1]))]
         ELSE g1

pause_trading(g, reason) ==
    [g EXCEPT !.is_trading_paused = TRUE, !.pause_reason = Some(ManualReason(reason))]

resume_trading(g) ==
    [g EXCEPT !.is_trading_paused = FALSE, !.pause_reason = None]

SetGate(g) ==
    /\ daily_stats' = g.daily_stats
    /\ is_trading_paused' = g.is_trading_paused
    /\ pause_reason' = g.pause_reason
    /\ UNCHANGED config

---------------------------------------------------------------------------
(* Inputs *)

Pairs == {"BTC/USD"}
Amounts == {10000, 35000, 110000}
Balances == {None, Some(0), Some(74000), Some(75000), Some(100000)}
\* market context of a check: <<volatility, oi_change, sentiment_score>>
Contexts ==
    { <<5, None, None>>,
      <<8, Some(-12), Some(-25)>>,
      <<5, Some(-20), Some(-40)>>,
      <<5, Some(-12), Some(-40)>>,
      <<11, Some(-20), Some(-40)>> }
ProfitLosses == {-30000, 5000}
PauseReasons == {"Manual pause"}
StartBalances == {100000}

Trade(pair, action, amount, stops) ==
    [action |-> action,
     amount |-> amount,
     pair |-> pair,
     price |-> None,
     stopLoss |-> stops[1],
     takeProfit |-> stops[2]]

Market(price, volatility) == [price |-> price, volatility |-> volatility]

NoResult == [op |-> "none"]

---------------------------------------------------------------------------
(* Operations of the risk gate *)

RunSafetyChecks(trade, portfolio, market_data, oi_data, sentiment_data) ==
    LET r == run_safety_checks(CurrentGate, trade, portfolio, market_data,
                               oi_data, sentiment_data, today)
    IN /\ SetGate(r.gate)
       /\ last' = [market_data |-> market_data,
                   now |-> today,
                   oi_data |-> oi_data,
                   op |-> "run_safety_checks",
                   portfolio |-> portfolio,
                   pre |-> CurrentGate,
                   sentiment_data |-> sentiment_data,
                   trade |-> trade]
       /\ result' = r.checks
       /\ UNCHANGED <<clockVars, execVars>>
       /\ UNCHANGED auxVars

RecordTrade(profit_loss) ==
    /\ daily_stats.trades < MaxTrades
    /\ SetGate(record_trade(CurrentGate, profit_loss))
    /\ last' = [now |-> today,
                op |-> "record_trade",
                pre |-> CurrentGate,
                profit_loss |-> profit_loss]
    /\ result' = NoResult
    /\ UNCHANGED <<clockVars, execVars>>
    /\ UNCHANGED auxVars

PauseTrading(reason) ==
    /\ SetGate(pause_trading(CurrentGate, reason))
    /\ last' = [now |-> today, op |-> "pause_trading", pre |-> CurrentGate]
    /\ result' = NoResult
    /\ UNCHANGED <<clockVars, execVars>>
    /\ UNCHANGED auxVars

ResumeTrading ==
    /\ SetGate(resume_trading(CurrentGate))
    /\ last' = [now |-> today, op |-> "resume_trading", pre |-> CurrentGate]
    /\ result' = NoResult
    /\ UNCHANGED <<clockVars, execVars>>
    /\ UNCHANGED auxVars

ResetDailyStats(start_balance) ==
    /\ SetGate(reset_daily_stats(start_balance, today))
    /\ last' = [now |-> today, op |-> "reset_daily_stats", pre |-> CurrentGate]
    /\ result' = NoResult
    /\ UNCHANGED <<clockVars, execVars>>
    /\ UNCHANGED auxVars

\* the calendar date advances; the millisecond clock with it
NextDay ==
    /\ today < MaxDay
    /\ today' = today + 1
    /\ UNCHANGED <<now_ms, gateVars, execVars, last, result>>
    /\ UNCHANGED auxVars

\* the components a specification leaves alone, as they are constructed
IdleListener ==
    /\ listener_exchange = "binance"
    /\ price_history = << >>
    /\ timestamp_history = << >>
    /\ wall = 0

NoEvent == [kind |-> "none"]

IdleFeed ==
    /\ exchange = "kraken"
    /\ websocket = "none"
    /\ is_connected = FALSE
    /\ is_running = FALSE
    /\ reconnect_attempts = 0
    /\ subscriptions = << >>
    /\ price_data = << >>
    /\ delivered = << >>
    /\ feed_pc = "not_started"
    /\ feed_event = NoEvent

IdleBot ==
    /\ bot_portfolio = [balance |-> Some(100000)]
    /\ requests = << >>
    /\ inflight = << >>
    /\ handled = << >>

\* the five signal sources of the fusion, in the order in which
\* get_alpha_signals asks them
SourceOrder == <<"speed", "alt_data", "microstructure", "options_flow", "volatility">>
Sources == {SourceOrder[i] : i \in DOMAIN SourceOrder}

\* the signal sources as they are constructed
IdleBook ==
    /\ book_exchange = "binance"
    /\ bids = << >>
    /\ asks = << >>

IdleTasks ==
    /\ listener_websocket = 0
    /\ listener_connected = FALSE
    /\ listener_stream = None
    /\ opened = 0
    /\ signal_tasks = << >>

IdleSignals ==
    /\ IdleBook
    /\ imported = Sources
    /\ IdleTasks

InitAux ==
    /\ updates = 0
    /\ IdleListener
    /\ IdleFeed
    /\ IdleBot
    /\ IdleSignals

InitGateState ==
    /\ daily_stats = [last_reset |-> today,
                      loss |-> 0,
                      start_balance |-> None,
                      trades |-> 0]
    /\ is_trading_paused = FALSE
    /\ pause_reason = None

InitGate ==
    /\ config \in {default_config(2, s) : s \in BOOLEAN}
    /\ today = 0
    /\ now_ms = 0
    /\ InitGateState
    /\ risk_manager = TRUE
    /\ exchange_client = FALSE
    /\ active_orders = << >>
    /\ order_history = << >>
    /\ positions = << >>
    /\ last = [op |-> "init"]
    /\ result = NoResult
    /\ InitAux

NextGate ==
    \/ \E a \in Amounts, b \in Balances, c \in Contexts :
         RunSafetyChecks(Trade("BTC/USD", "buy", a, <<None, None>>), [balance |-> b],
                         Market(Some(5000), c[1]),
                c[2], c[3])
    \/ \E p \in ProfitLosses : RecordTrade(p)
    \/ \E r \in PauseReasons : PauseTrading(r)
    \/ ResumeTrading
    \/ \E b \in StartBalances : ResetDailyStats(Some(b))
    \/ NextDay

SpecGate == InitGate /\ [][NextGate]_vars

\* run_safety_checks over a wider grid of inputs: a trade without an amount,
\* a negative and a zero balance, a volatility exactly at the threshold, and
\* each of the hard rejections on its own
WideAmounts == {0, 10000, 110000}
WideBalances == {None, Some(-5000), Some(0), Some(74000), Some(100000)}
WideContexts ==
    { <<5, None, None>>,
      <<8, Some(-12), Some(-25)>>,
      <<10, None, None>>,
      <<11, None, None>>,
      <<5, Some(-20), None>>,
      <<5, None, Some(-40)>> }
WideProfits == {5000}

NextChecks ==
    \/ \E a \in WideAmounts, b \in WideBalances, c \in WideContexts :
         RunSafetyChecks(Trade("BTC/USD", "buy", a, <<None, None>>), [balance |-> b],
                         Market(Some(5000), c[1]), c[2], c[3])
    \/ \E p \in WideProfits : RecordTrade(p)
    \/ NextDay

SpecChecks == InitGate /\ [][NextChecks]_vars

---------------------------------------------------------------------------
(* Exact rationals <<numerator, denominator>>, denominator > 0, in lowest  *)
(* terms: the position sizes and entry prices, which the source holds as   *)
(* floats                                                                  *)

RECURSIVE GCD(_, _)
GCD(a, b) == IF b = 0 THEN a ELSE GCD(b, a % b)

Abs(a) == IF a < 0 THEN -a ELSE a

Rat(n, d) == LET g == GCD(Abs(n), d) IN <<n \div g, d \div g>>

RZero == <<0, 1>>
RAdd(x, y) == Rat(x[1] * y[2] + y[1] * x[2], x[2] * y[2])
RSub(x, y) == Rat(x[1] * y[2] - y[1] * x[2], x[2] * y[2])
RPos(x) == x[1] > 0
RMax0(x) == IF RPos(x) THEN x ELSE RZero

---------------------------------------------------------------------------
(* TradeExecutor *)

\* str.upper() on the actions used
Upper(action) ==
    CASE action = "buy" -> "BUY"
      [] action = "sell" -> "SELL"
      [] OTHER -> "HOLD"

Terminal == {"filled", "cancelled", "rejected"}

create_order(trade_signal, market_data, ms, day) ==
    [amount |-> trade_signal.amount,
     cancelled_at |-> None,
     filled_price |-> None,
     id |-> ms,
     pair |-> trade_signal.pair,
     price |-> Get(market_data.price, Get(trade_signal.price, 0)),
     status |-> "pending",
     stop_loss |-> trade_signal.stopLoss,
     take_profit |-> trade_signal.takeProfit,
     timestamp |-> day,
     type |-> Upper(trade_signal.action)]

\* the order after the live venue handled it: the stub returns a fill
\* report and leaves the order object as it was
_execute_on_exchange(order) == order

\* the order after the instant-fill simulator handled it
_mock_execute(order, day) ==
    [order EXCEPT !.status = "filled", !.filled_price = Some(order.price)]

EmptyPosition == [entry_price |-> RZero, size |-> RZero, total_cost |-> 0]

\* dict access on the positions map
HasPosition(pos, pair) == pair \in DOMAIN pos
PutPosition(pos, pair, p) ==
    [k \in DOMAIN pos \cup {pair} |-> IF k = pair THEN p ELSE pos[k]]

\* a cost basis that forgets what was paid before
BuyCost_LastFillOnly(total_cost, amount) == amount

\* total_cost = position['total_cost'] + order['amount'] (line 153)
BuyCost(total_cost, amount) == total_cost + amount

\* a sell that takes the size below zero
SellSize_Unclamped(size, delta) == RSub(size, delta)

\* max(0, position['size'] - sell_size) (line 162)
SellSize(size, delta) == RMax0(RSub(size, delta))

\* a sell that empties the position and keeps its entry price and cost
_update_positions_KeepsCostWhenEmpty(pos, order) ==
    LET pos1 == IF HasPosition(pos, order.pair) THEN pos
                ELSE PutPosition(pos, order.pair, EmptyPosition)
        position == pos1[order.pair]
    IN IF order.type \notin {"BUY", "SELL"}
         THEN [positions |-> pos1, raised |-> FALSE]
         ELSE IF ~Truthy(order.filled_price)
           THEN [positions |-> pos1, raised |-> TRUE]
           ELSE LET delta == Rat(order.amount, order.filled_price[1])
                IN IF order.type = "BUY"
                     THEN LET total_cost == BuyCost(position.total_cost, order.amount)
                              total_size == RAdd(position.size, delta)
                          IN [positions |-> PutPosition(pos1, order.pair,
                                  [entry_price |-> IF RPos(total_size)
                                       THEN Rat(total_cost * total_size[2], total_size[1])
                                       ELSE RZero,
                                   size |-> total_size,
                                   total_cost |-> total_cost]),
                              raised |-> FALSE]
                     ELSE LET size == SellSize(position.size, delta)
                          IN [positions |-> PutPosition(pos1, order.pair,
                                  [position EXCEPT !.size = size]),
                              raised |-> FALSE]

\* _update_positions: the positions it leaves and whether it raised
\* (KeyError on a missing filled_price, ZeroDivisionError on a zero one)
_update_positions(pos, order) ==
    LET pos1 == IF HasPosition(pos, order.pair) THEN pos
                ELSE PutPosition(pos, order.pair, EmptyPosition)
        position == pos1[order.pair]
    IN IF order.type \notin {"BUY", "SELL"}
         THEN [positions |-> pos1, raised |-> FALSE]
         ELSE IF ~Truthy(order.filled_price)
           THEN [positions |-> pos1, raised |-> TRUE]
           ELSE LET delta == Rat(order.amount, order.filled_price[1])
                IN IF order.type = "BUY"
                     THEN LET total_cost == BuyCost(position.total_cost, order.amount)
                              total_size == RAdd(position.size, delta)
                          IN [positions |-> PutPosition(pos1, order.pair,
                                  [entry_price |-> IF RPos(total_size)
                                       THEN Rat(total_cost * total_size[2], total_size[1])
                                       ELSE RZero,
                                   size |-> total_size,
                                   total_cost |-> total_cost]),
                              raised |-> FALSE]
                     ELSE LET size == SellSize(position.size, delta)
                          IN [positions |-> PutPosition(pos1, order.pair,
                                  IF size = RZero
                                    THEN [entry_price |-> RZero,
                                          size |-> size,
                                          total_cost |-> 0]
                                    ELSE [position EXCEPT !.size = size]),
                              raised |-> FALSE]

\* the active_orders dict, in insertion order: entries [id, ref], ref the
\* index in order_history of the order object
ActiveIds(active) == {active[i].id : i \in DOMAIN active}
ActiveRef(active, id) ==
    active[CHOOSE i \in DOMAIN active : active[i].id = id].ref
ActivePut(active, id, ref) ==
    IF id \in ActiveIds(active)
      THEN [i \in DOMAIN active |->
              IF active[i].id = id THEN [id |-> id, ref |-> ref] ELSE active[i]]
      ELSE Append(active, [id |-> id, ref |-> ref])
ActiveDel(active, id) == SelectSeq(active, LAMBDA e : e.id # id)

\* active_orders[order['id']] = order (line 84)
RecordActive(active, order, ref) == ActivePut(active, order.id, ref)

\* execute_trade after the risk gate let the trade through (lines 66-102)
ExecuteApproved(trade_signal, market_data) ==
    LET order0 == create_order(trade_signal, market_data, now_ms, today)
        order == IF exchange_client THEN _execute_on_exchange(order0)
                 ELSE _mock_execute(order0, today)
        history == Append(order_history, order)
        up == _update_positions(positions, order)
    IN [active_orders |-> RecordActive(active_orders, order, Len(history)),
        order_history |-> history,
        positions |-> up.positions,
        result |-> IF up.raised
                     THEN [details |-> <<>>,
                           error |-> "exception",
                           op |-> "execute_trade",
                           success |-> FALSE,
                           warnings |-> <<>>]
                     ELSE [details |-> <<>>,
                           error |-> "",
                           op |-> "execute_trade",
                           success |-> TRUE,
                           warnings |-> <<>>]]

\* the status cancel_order writes (line 173)
CancelledStatus(order) == "cancelled"

\* cancel_order may go ahead for this id (line 169)
CanCancel(active, history, id) == id \in ActiveIds(active)

\* the order history after cancel_order marked the order (lines 172-174)
CancelInHistory(history, ref, day) ==
    [history EXCEPT ![ref].status = CancelledStatus(history[ref]),
                    ![ref].cancelled_at = Some(day)]

\* a stop that needs the price strictly below the level
StopLossHit_Strict(order, current_price) ==
    Truthy(order.stop_loss) /\ current_price < order.stop_loss[1]

\* a level is set and the price crossed it (lines 200, 212)
StopLossHit(order, current_price) ==
    Truthy(order.stop_loss) /\ current_price <= order.stop_loss[1]
TakeProfitHit(order, current_price) ==
    Truthy(order.take_profit) /\ current_price >= order.take_profit[1]

\* the closing order of check_stop_loss_take_profit for one order
ClosingOrder(order, current_price, market_data, ms, day) ==
    create_order([action |-> "sell",
                  amount |-> order.amount,
                  pair |-> order.pair,
                  price |-> Some(current_price),
                  stopLoss |-> None,
                  takeProfit |-> None],
                 market_data, ms, day)

RECURSIVE ScanActive(_, _, _, _, _, _)
\* the triggered orders of the entries i.. of the active set
ScanActive(active, history, i, market_data, ms, day) ==
    IF i > Len(active) THEN <<>>
    ELSE LET order == history[active[i].ref]
             current_price == Get(market_data.price, 0)
             rest == ScanActive(active, history, i + 1, market_data, ms, day)
         IN IF order.status # "filled" THEN rest
            ELSE IF StopLossHit(order, current_price)
                      \/ TakeProfitHit(order, current_price)
              THEN <<ClosingOrder(order, current_price, market_data, ms, day)>> \o rest
              ELSE rest

check_stop_loss_take_profit(active, history, market_data, ms, day) ==
    ScanActive(active, history, 1, market_data, ms, day)

---------------------------------------------------------------------------
(* Operations of the order lifecycle manager *)

\* an executor that goes on with the clamped trade when the gate suggests one
Rejected_UnlessAdjusted(checks, trade_signal) ==
    ~checks.allowed /\ checks.adjusted_trade = trade_signal

\* if not checks['allowed'] (line 54)
Rejected(checks, trade_signal) == ~checks.allowed

ExecPre ==
    [active_orders |-> active_orders,
     gate |-> CurrentGate,
     order_history |-> order_history,
     positions |-> positions]

ExecuteTrade(trade_signal, portfolio, market_data, oi_data, sentiment_data) ==
    LET r == run_safety_checks(CurrentGate, trade_signal, portfolio, market_data,
                               oi_data, sentiment_data, today)
        rejected == risk_manager /\ Rejected(r.checks, trade_signal)
        signal == IF risk_manager THEN r.checks.adjusted_trade ELSE trade_signal
        e == ExecuteApproved(signal, market_data)
    IN /\ Len(order_history) < MaxOrders
       /\ IF risk_manager THEN SetGate(r.gate) ELSE UNCHANGED gateVars
       /\ last' = [checks |-> IF risk_manager THEN Some(r.checks) ELSE None,
                   market_data |-> market_data,
                   ms |-> now_ms,
                   now |-> today,
                   op |-> "execute_trade",
                   portfolio |-> portfolio,
                   pre |-> ExecPre,
                   trade |-> trade_signal]
       /\ IF rejected
            THEN /\ result' = [details |-> r.checks.errors,
                               error |-> "Safety checks failed",
                               op |-> "execute_trade",
                               success |-> FALSE,
                               warnings |-> r.checks.warnings]
                 /\ UNCHANGED <<active_orders, order_history, positions>>
            ELSE /\ result' = e.result
                 /\ active_orders' = e.active_orders
                 /\ order_history' = e.order_history
                 /\ positions' = e.positions
       /\ UNCHANGED <<clockVars, risk_manager, exchange_client>>
       /\ UNCHANGED auxVars

CancelOrder(order_id) ==
    /\ last' = [now |-> today,
                op |-> "cancel_order",
                order_id |-> order_id,
                pre |-> ExecPre]
    /\ IF CanCancel(active_orders, order_history, order_id)
         THEN /\ order_history' =
                   CancelInHistory(order_history,
                                   ActiveRef(active_orders, order_id), today)
              /\ active_orders' = ActiveDel(active_orders, order_id)
              /\ result' = [op |-> "cancel_order", success |-> TRUE]
         ELSE /\ result' = [op |-> "cancel_order", success |-> FALSE]
              /\ UNCHANGED <<active_orders, order_history>>
    /\ UNCHANGED <<positions, gateVars, clockVars, risk_manager, exchange_client>>
    /\ UNCHANGED auxVars

\* a scan that takes the orders it closes out of the active set
CheckStopLossTakeProfit_ClosesOrders(market_data) ==
    /\ last' = [market_data |-> market_data,
                now |-> today,
                op |-> "check_stop_loss_take_profit",
                pre |-> ExecPre]
    /\ result' = [op |-> "check_stop_loss_take_profit",
                  triggered_orders |-> check_stop_loss_take_profit(active_orders, order_history,
                                                  market_data, now_ms, today)]
    /\ active_orders' =
          SelectSeq(active_orders,
                    LAMBDA e : check_stop_loss_take_profit(<<e>>, order_history, market_data,
                                                           now_ms, today) = << >>)
    /\ UNCHANGED <<gateVars, clockVars, risk_manager, exchange_client,
                   order_history, positions>>
    /\ UNCHANGED auxVars

CheckStopLossTakeProfit(market_data) ==
    /\ last' = [market_data |-> market_data,
                now |-> today,
                op |-> "check_stop_loss_take_profit",
                pre |-> ExecPre]
    /\ result' = [op |-> "check_stop_loss_take_profit",
                  triggered_orders |-> check_stop_loss_take_profit(active_orders, order_history,
                                                  market_data, now_ms, today)]
    /\ UNCHANGED <<gateVars, clockVars, execVars>>
    /\ UNCHANGED auxVars

\* the millisecond clock advances within the day
Tick ==
    /\ now_ms < MaxMs
    /\ now_ms' = now_ms + 1
    /\ UNCHANGED <<today, gateVars, execVars, last, result>>
    /\ UNCHANGED auxVars

\* <<action, <<stopLoss, takeProfit>>>> of a trade signal: an entry with its
\* levels, or an exit
ExecSignals == {<<"buy", <<Some(4000), Some(6000)>>>>, <<"sell", <<None, None>>>>}
ExecAmounts == {10000, 35000}
ExecBalances == {74000, 100000}
ScanPrices == {4000, 5000, 6000}

Init ==
    /\ config = default_config(1, TRUE)
    /\ today = 0
    /\ now_ms = 0
    /\ InitGateState
    /\ risk_manager \in BOOLEAN
    /\ exchange_client \in BOOLEAN
    /\ active_orders = << >>
    /\ order_history = << >>
    /\ positions = << >>
    /\ last = [op |-> "init"]
    /\ result = NoResult
    /\ InitAux

Next ==
    \/ \E p \in Pairs, sg \in ExecSignals, m \in ExecAmounts, b \in ExecBalances :
         ExecuteTrade(Trade(p, sg[1], m, sg[2]), [balance |-> Some(b)],
                      Market(Some(5000), 5), None, None)
    \/ \E id \in 0..MaxMs : CancelOrder(id)
    \/ \E p \in ScanPrices : CheckStopLossTakeProfit(Market(Some(p), 5))
    \/ Tick
    \/ NextDay

Spec == Init /\ [][Next]_vars

---------------------------------------------------------------------------
(* Position accounting on its own: _update_positions applied to filled      *)
(* orders of several pairs, amounts and fill prices                         *)

PosPairs == {"BTC/USD", "ETH/USD"}
PosAmounts == {7500, 10000}
PosPrices == {2500, 5000}

\* an order as _update_positions receives it from the instant-fill simulator
FilledOrder(pair, action, amount, price) ==
    _mock_execute(create_order(Trade(pair, action, amount, <<None, None>>),
                               Market(Some(price), 5), now_ms, today), today)

UpdatePositions(order) ==
    /\ updates < MaxUpdates
    /\ updates' = updates + 1
    /\ positions' = _update_positions(positions, order).positions
    /\ last' = [op |-> "_update_positions", order |-> order, pre |-> ExecPre]
    /\ result' = NoResult
    /\ UNCHANGED <<gateVars, clockVars, risk_manager, exchange_client,
                   active_orders, order_history>>
    /\ UNCHANGED <<listenerVars, feedVars, botVars, signalVars>>

InitPositions ==
    /\ config = default_config(1, TRUE)
    /\ today = 0
    /\ now_ms = 0
    /\ InitGateState
    /\ risk_manager = FALSE
    /\ exchange_client = FALSE
    /\ active_orders = << >>
    /\ order_history = << >>
    /\ positions = << >>
    /\ last = [op |-> "init"]
    /\ result = NoResult
    /\ InitAux

NextPositions ==
    \E p \in PosPairs, a \in {"buy", "sell"}, m \in PosAmounts, f \in PosPrices :
        UpdatePositions(FilledOrder(p, a, m, f))

SpecPositions == InitPositions /\ [][NextPositions]_vars

---------------------------------------------------------------------------
(* Inbound payloads                                                        *)
(*                                                                         *)
(* A payload is described by what the parsers look at: whether it is JSON, *)
(* the shape of the decoded value, whether it carries the envelope of a    *)
(* ticker of the exchange (Kraken: a list of 4 whose second element is a   *)
(* list of 4; KuCoin: type "message" with a data object; Coinbase: type    *)
(* "ticker"; Binance has no envelope), and its price field: missing, a     *)
(* text float() refuses, or a number.                                      *)

Payload(is_json, shape, envelope, price_kind, price) ==
    [envelope |-> envelope,
     json |-> is_json,
     price |-> price,
     price_kind |-> price_kind,
     shape |-> shape]

Ticker(price) == Payload(TRUE, "dict", TRUE, "number", price)
ListTicker(price) == Payload(TRUE, "list", TRUE, "number", price)

\* payloads no parser can turn into a record, for any exchange
BadPayloads ==
    { Payload(FALSE, "scalar", FALSE, "missing", 0),
      Payload(TRUE, "scalar", FALSE, "missing", 0),
      Payload(TRUE, "dict", FALSE, "missing", 0),
      Payload(TRUE, "list", FALSE, "missing", 0),
      Payload(TRUE, "dict", TRUE, "text", 0),
      Payload(TRUE, "list", TRUE, "text", 0) }

\* the outcome of a parser: it raised, or returned None, or a value
Raised == [raised |-> TRUE, value |-> None]
Returned(v) == [raised |-> FALSE, value |-> v]

\* float(x) of the price field
Float(payload) ==
    IF payload.price_kind = "number" THEN Returned(Some(payload.price)) ELSE Raised

---------------------------------------------------------------------------
(* FastMarketListener (src/modules/fast_market_listener.py)                *)

Symbols == {"BTC/USDT"}
SamplePrices == {10000}

\* deque(maxlen=...).append
DequeAppend(q, x) == IF Len(q) >= maxlen THEN Append(Tail(q), x) ELSE Append(q, x)

RECURSIVE Stale(_, _)
\* how many samples the while loop of lines 78-81 pops from the left
Stale(timestamps, cutoff_time) ==
    IF timestamps # << >> /\ timestamps[1] < cutoff_time
      THEN 1 + Stale(Tail(timestamps), cutoff_time)
      ELSE 0

DropLeft(q, n) == SubSeq(q, n + 1, Len(q))

HistoryOf(history, symbol) ==
    IF symbol \in DOMAIN history THEN history[symbol] ELSE << >>
PutHistory(history, symbol, q) ==
    [k \in DOMAIN history \cup {symbol} |-> IF k = symbol THEN q ELSE history[k]]

_update_price_history(prices, timestamps, symbol, price, timestamp) ==
    LET p == DequeAppend(HistoryOf(prices, symbol), price)
        t == DequeAppend(HistoryOf(timestamps, symbol), timestamp)
        n == Stale(t, timestamp - window_seconds)
    IN [price_history |-> PutHistory(prices, symbol, DropLeft(p, n)),
        timestamp_history |-> PutHistory(timestamps, symbol, DropLeft(t, n))]

\* the price _process_message reads from the payload (lines 160-169)
ListenerPrice(exch, payload) ==
    IF ~payload.json THEN Raised
    ELSE IF exch = "binance"
      THEN IF payload.shape # "dict" THEN Raised
           ELSE IF payload.price_kind = "missing" THEN Returned(Some(0))
           ELSE Float(payload)
    ELSE IF exch = "kraken"
      THEN IF payload.shape = "list" /\ payload.envelope
             THEN Float(payload) ELSE Returned(None)
    ELSE Returned(None)

_process_message(exch, prices, timestamps, symbol, payload, now) ==
    LET price == ListenerPrice(exch, payload)
    IN IF ~price.raised /\ Truthy(price.value) /\ price.value[1] > 0
         THEN _update_price_history(prices, timestamps, symbol, price.value[1], now)
         ELSE [price_history |-> prices, timestamp_history |-> timestamps]

ListenerPre ==
    [price_history |-> price_history, timestamp_history |-> timestamp_history]

ProcessMessage(symbol, payload) ==
    LET h == _process_message(listener_exchange, price_history, timestamp_history,
                              symbol, payload, wall)
    IN /\ price_history' = h.price_history
       /\ timestamp_history' = h.timestamp_history
       /\ last' = [op |-> "_process_message",
                   payload |-> payload,
                   pre |-> ListenerPre,
                   symbol |-> symbol,
                   timestamp |-> wall]
       /\ result' = NoResult
       /\ UNCHANGED <<gateVars, clockVars, execVars, updates, listener_exchange, wall>>
       /\ UNCHANGED <<feedVars, botVars, signalVars>>

\* time.time() moves on
ClockAdvance ==
    /\ wall < MaxTime
    /\ wall' = wall + 1
    /\ UNCHANGED <<gateVars, clockVars, execVars, last, result, updates,
                   listener_exchange, price_history, timestamp_history>>
    /\ UNCHANGED <<feedVars, botVars, signalVars>>

\* the system clock is set back: time.time() is the wall clock, which is
\* not monotonic
ClockSetBack ==
    /\ wall > 0
    /\ wall' = wall - 1
    /\ UNCHANGED <<gateVars, clockVars, execVars, last, result, updates,
                   listener_exchange, price_history, timestamp_history>>
    /\ UNCHANGED <<feedVars, botVars, signalVars>>

\* the components outside the listener, idle
IdleCore ==
    /\ config = default_config(1, TRUE)
    /\ today = 0
    /\ now_ms = 0
    /\ InitGateState
    /\ risk_manager = FALSE
    /\ exchange_client = FALSE
    /\ active_orders = << >>
    /\ order_history = << >>
    /\ positions = << >>
    /\ last = [op |-> "init"]
    /\ result = NoResult
    /\ updates = 0

InitListener ==
    /\ IdleCore
    /\ listener_exchange \in {"binance", "kraken"}
    /\ price_history = << >>
    /\ timestamp_history = << >>
    /\ wall = 0
    /\ IdleFeed
    /\ IdleBot
    /\ IdleSignals

ListenerPayloads == BadPayloads \cup {Ticker(p) : p \in SamplePrices}
                      \cup {ListTicker(p) : p \in SamplePrices}

NextListener ==
    \/ \E sym \in Symbols, m \in ListenerPayloads : ProcessMessage(sym, m)
    \/ ClockAdvance
    \/ ClockSetBack

SpecListener == InitListener /\ [][NextListener]_vars

---------------------------------------------------------------------------
(* WebSocketPriceFeed (src/websocket_price_feed.py)                        *)
(*                                                                         *)
(* listen() is a coroutine: feed_pc is the await it is suspended at        *)
(* ("sleep": asyncio.sleep(1), "recv": the receive with its timeout,       *)
(* "reconnect": the delay of _reconnect), or "loop" when it is about to    *)
(* test the while condition.  Other tasks run only while it is suspended.  *)

Exchanges == {"kraken", "binance", "kucoin", "coinbase"}
FeedPairs == <<"BTC/USD">>
FeedPrices == {10000, 10100}

Record(exch, payload) ==
    LET price == Float(payload)
    IN IF price.raised THEN Raised
       ELSE Returned(Some([exchange |-> exch, price |-> price.value[1]]))

_parse_kraken_message(payload) ==
    IF payload.shape = "list" /\ payload.envelope
      THEN Record("kraken", payload) ELSE Returned(None)

_parse_binance_message(payload) ==
    IF payload.shape = "scalar" THEN Raised
    ELSE IF payload.shape = "dict" /\ payload.price_kind # "missing"
      THEN Record("binance", payload) ELSE Returned(None)

_parse_kucoin_message(payload) ==
    IF payload.shape # "dict" THEN Raised
    ELSE IF payload.envelope /\ payload.price_kind # "missing"
      THEN Record("kucoin", payload) ELSE Returned(None)

_parse_coinbase_message(payload) ==
    IF payload.shape # "dict" THEN Raised
    ELSE IF payload.envelope /\ payload.price_kind # "missing"
      THEN Record("coinbase", payload) ELSE Returned(None)

parse_message(exch, payload) ==
    IF ~payload.json THEN Returned(None)
    ELSE CASE exch = "kraken" -> _parse_kraken_message(payload)
           [] exch = "binance" -> _parse_binance_message(payload)
           [] exch = "kucoin" -> _parse_kucoin_message(payload)
           [] exch = "coinbase" -> _parse_coinbase_message(payload)

\* a feed that stores whatever the parser returned
Accepted_Unchecked(parsed) == ~parsed.raised

\* if price_data: (line 243), reached when the parser did not raise
Accepted(parsed) == ~parsed.raised /\ parsed.value # None

\* _extract_pair_from_message: the first subscribed pair
_extract_pair_from_message(subs) == IF subs # << >> THEN Some(subs[1]) ELSE None

\* get_subscription_message is empty for Binance: nothing is sent
SendsSubscription(exch, pairs) == pairs # << >> /\ exch # "binance"

PutPrice(data, pair, rec) ==
    [k \in DOMAIN data \cup {pair} |-> IF k = pair THEN rec ELSE data[k]]

RECURSIVE Subscribe(_, _)
\* self.subscriptions[pair] = True for every pair, keys in insertion order
Subscribe(subs, pairs) ==
    IF pairs = << >> THEN subs
    ELSE Subscribe(IF \E i \in DOMAIN subs : subs[i] = pairs[1]
                     THEN subs ELSE Append(subs, pairs[1]),
                   Tail(pairs))

FeedLink ==
    [is_connected |-> is_connected,
     reconnect_attempts |-> reconnect_attempts,
     subscriptions |-> subscriptions,
     websocket |-> websocket]

\* connect(pairs): the transport opens and the subscription is sent ("ok"),
\* the transport does not open ("refused"), or it opens and sending the
\* subscription fails ("send_failed")
connect(link, pairs, outcome) ==
    CASE outcome = "ok" ->
           [is_connected |-> TRUE,
            reconnect_attempts |-> 0,
            subscriptions |-> Subscribe(link.subscriptions, pairs),
            websocket |-> "open"]
      [] outcome = "send_failed" ->
           [is_connected |-> FALSE,
            reconnect_attempts |-> 0,
            subscriptions |-> link.subscriptions,
            websocket |-> "open"]
      [] OTHER ->
           [link EXCEPT !.is_connected = FALSE]

ConnectOutcomes(exch, pairs) ==
    {"ok", "refused"} \cup (IF SendsSubscription(exch, pairs) THEN {"send_failed"} ELSE {})

SetLink(link) ==
    /\ is_connected' = link.is_connected
    /\ reconnect_attempts' = link.reconnect_attempts
    /\ subscriptions' = link.subscriptions
    /\ websocket' = link.websocket

FeedPre == [delivered |-> delivered, price_data |-> price_data]
FeedEvent(kind, payload) == [kind |-> kind, payload |-> payload, pre |-> FeedPre]

otherThanFeed == <<gateVars, clockVars, execVars, updates, listenerVars, botVars,
                   signalVars>>

\* connect(pairs), called before listen()
Connect(pairs, outcome) ==
    /\ feed_pc = "not_started"
    /\ websocket = "none"
    /\ outcome \in ConnectOutcomes(exchange, pairs)
    /\ SetLink(connect(FeedLink, pairs, outcome))
    /\ last' = [op |-> "connect"]
    /\ result' = NoResult
    /\ UNCHANGED <<exchange, is_running, price_data, delivered, feed_pc, feed_event>>
    /\ UNCHANGED otherThanFeed

\* listen() is started: it runs up to the test of the while condition
Listen ==
    /\ feed_pc = "not_started"
    /\ is_running' = TRUE
    /\ feed_pc' = "loop"
    /\ feed_event' = FeedEvent("started", None)
    /\ last' = [op |-> "listen"]
    /\ result' = NoResult
    /\ UNCHANGED <<exchange, websocket, is_connected, reconnect_attempts,
                   subscriptions, price_data, delivered>>
    /\ UNCHANGED otherThanFeed

\* while self.is_running, and the test of the connection (lines 234-240)
LoopTop ==
    /\ feed_pc = "loop"
    /\ IF ~is_running
         THEN feed_pc' = "done" /\ feed_event' = FeedEvent("stopped", None)
         ELSE IF ~is_connected \/ websocket = "none"
           THEN feed_pc' = "sleep" /\ feed_event' = FeedEvent("not_connected", None)
           ELSE feed_pc' = "recv" /\ feed_event' = FeedEvent("receiving", None)
    /\ UNCHANGED <<exchange, websocket, is_connected, is_running, reconnect_attempts,
                   subscriptions, price_data, delivered, last, result>>
    /\ UNCHANGED otherThanFeed

\* asyncio.sleep(1) is over (lines 237, 269)
Wake ==
    /\ feed_pc = "sleep"
    /\ feed_pc' = "loop"
    /\ feed_event' = FeedEvent("woke", None)
    /\ UNCHANGED <<exchange, websocket, is_connected, is_running, reconnect_attempts,
                   subscriptions, price_data, delivered, last, result>>
    /\ UNCHANGED otherThanFeed

\* a message arrives (lines 240-251, 267-269)
Recv(payload) ==
    LET parsed == parse_message(exchange, payload)
        pair == _extract_pair_from_message(subscriptions)
        rec == parsed.value[1]
    IN /\ feed_pc = "recv"
       /\ websocket = "open"
       /\ Len(delivered) < MaxDelivered
       /\ feed_event' = FeedEvent("message", Some(payload))
       /\ IF parsed.raised
            THEN /\ feed_pc' = "sleep"
                 /\ UNCHANGED <<price_data, delivered>>
            ELSE /\ feed_pc' = "loop"
                 /\ IF Accepted(parsed) /\ pair # None
                      THEN /\ price_data' = PutPrice(price_data, pair[1], parsed.value)
                           /\ delivered' = Append(delivered, [pair |-> pair[1], price_data |-> parsed.value])
                      ELSE UNCHANGED <<price_data, delivered>>
       /\ UNCHANGED <<exchange, websocket, is_connected, is_running, reconnect_attempts,
                      subscriptions, last, result>>
       /\ UNCHANGED otherThanFeed

\* nothing arrives within the timeout: a ping is sent, and whatever it
\* raises is swallowed (lines 253-260); a ping that fails may or may not
\* have found the transport closed
RecvTimeout(ping_ok, closed) ==
    /\ feed_pc = "recv"
    /\ websocket = "open"
    /\ feed_pc' = "loop"
    /\ feed_event' = FeedEvent(IF ping_ok THEN "probe_ok" ELSE "probe_failed", None)
    /\ websocket' = IF ~ping_ok /\ closed THEN "closed" ELSE websocket
    /\ UNCHANGED <<exchange, is_connected, is_running, reconnect_attempts,
                   subscriptions, price_data, delivered, last, result>>
    /\ UNCHANGED otherThanFeed

\* the receive raises ConnectionClosed: the peer closes the transport, or it
\* was closed already; _reconnect up to its delay (lines 262-265, 281-289)
RecvClosed ==
    /\ feed_pc = "recv"
    /\ websocket \in {"open", "closed"}
    /\ websocket' = "closed"
    /\ is_connected' = FALSE
    /\ IF reconnect_attempts >= max_reconnect_attempts
         THEN /\ is_running' = FALSE
              /\ feed_pc' = "loop"
              /\ feed_event' = FeedEvent("gave_up", None)
              /\ UNCHANGED reconnect_attempts
         ELSE /\ reconnect_attempts' = reconnect_attempts + 1
              /\ feed_pc' = "reconnect"
              /\ feed_event' = FeedEvent("closed", None)
              /\ UNCHANGED is_running
    /\ UNCHANGED <<exchange, subscriptions, price_data, delivered, last, result>>
    /\ UNCHANGED otherThanFeed

\* the delay of _reconnect is over: connect(pairs) (lines 291-292)
Reconnect(outcome) ==
    /\ feed_pc = "reconnect"
    /\ outcome \in ConnectOutcomes(exchange, subscriptions)
    /\ SetLink(connect(FeedLink, subscriptions, outcome))
    /\ feed_pc' = "loop"
    /\ feed_event' = FeedEvent(IF outcome = "ok" THEN "reconnected" ELSE "reconnect_failed", None)
    /\ UNCHANGED <<exchange, is_running, price_data, delivered, last, result>>
    /\ UNCHANGED otherThanFeed

\* disconnect(), called by another task while listen() is suspended
Disconnect ==
    /\ feed_pc \in {"sleep", "recv", "reconnect", "done"}
    /\ is_running' = FALSE
    /\ IF websocket # "none"
         THEN websocket' = "closed" /\ is_connected' = FALSE
         ELSE UNCHANGED <<websocket, is_connected>>
    /\ last' = [op |-> "disconnect"]
    /\ result' = NoResult
    /\ UNCHANGED <<exchange, reconnect_attempts, subscriptions, price_data,
                   delivered, feed_pc, feed_event>>
    /\ UNCHANGED otherThanFeed

FeedPayloads == BadPayloads \cup {Ticker(p) : p \in FeedPrices}
                  \cup {ListTicker(p) : p \in FeedPrices}

InitFeed ==
    /\ IdleCore
    /\ IdleListener
    /\ exchange \in Exchanges
    /\ websocket = "none"
    /\ is_connected = FALSE
    /\ is_running = FALSE
    /\ reconnect_attempts = 0
    /\ subscriptions = << >>
    /\ price_data = << >>
    /\ delivered = << >>
    /\ feed_pc = "not_started"
    /\ feed_event = NoEvent
    /\ IdleBot
    /\ IdleSignals

\* the steps of the listen() coroutine
ListenStep ==
    \/ LoopTop
    \/ Wake
    \/ \E m \in FeedPayloads : Recv(m)
    \/ \E ping_ok, closed \in BOOLEAN : RecvTimeout(ping_ok, closed)
    \/ RecvClosed
    \/ \E o \in {"ok", "refused", "send_failed"} : Reconnect(o)

NextFeed ==
    \/ \E o \in {"ok", "refused", "send_failed"} : Connect(FeedPairs, o)
    \/ Listen
    \/ ListenStep
    \/ Disconnect

SpecFeed == InitFeed /\ [][NextFeed]_vars

\* the event loop keeps running the listen() coroutine
SpecFeedLive == SpecFeed /\ WF_vars(ListenStep)

---------------------------------------------------------------------------
(* Both ingestion components, each on its own connection *)

InitIngest ==
    /\ IdleCore
    /\ listener_exchange \in {"binance", "kraken"}
    /\ price_history = << >>
    /\ timestamp_history = << >>
    /\ wall = 0
    /\ exchange \in Exchanges
    /\ websocket = "none"
    /\ is_connected = FALSE
    /\ is_running = FALSE
    /\ reconnect_attempts = 0
    /\ subscriptions = << >>
    /\ price_data = << >>
    /\ delivered = << >>
    /\ feed_pc = "not_started"
    /\ feed_event = NoEvent
    /\ IdleBot
    /\ IdleSignals

NextIngest ==
    \/ NextFeed
    \/ \E sym \in Symbols, m \in ListenerPayloads : ProcessMessage(sym, m)

SpecIngest == InitIngest /\ [][NextIngest]_vars

---------------------------------------------------------------------------
(* TradingBotWithWebSocket: price updates handled on one event loop.       *)
(* A handler is the body of on_price_update with execute_trade inside it;  *)
(* the loop runs another handler only while this one is suspended at an    *)
(* await.                                                                   *)

MaxRequests == 2

\* the share of the balance a signal asks for, in percent
PositionSizes == {30}
BotPrices == {5000}
BotActions == {"buy", "sell", "hold"}

\* a price update with the signal the strategy gives for it; overlap tells
\* that it arrived while another handler was in the middle of its trade
Request(pair, price, action, positionSize, overlap) ==
    [action |-> action,
     overlap |-> overlap,
     pair |-> pair,
     positionSize |-> positionSize,
     price |-> price]

\* the state the handlers share: the portfolio, the gate and the executor
BotState(portfolio, gate, active, history, pos) ==
    [active_orders |-> active,
     gate |-> gate,
     order_history |-> history,
     portfolio |-> portfolio,
     positions |-> pos]

CurrentBot ==
    BotState(bot_portfolio, CurrentGate, active_orders, order_history, positions)

\* the trade dict of on_price_update (lines 43-52)
BotTrade(portfolio, req) ==
    [action |-> req.action,
     amount |-> (portfolio.balance[1] * req.positionSize) \div 100,
     pair |-> req.pair,
     price |-> Some(req.price),
     stopLoss |-> Some((req.price * 98) \div 100),
     takeProfit |-> Some((req.price * 104) \div 100)]

\* the market_data dict of on_price_update (lines 29-34)
BotMarket(req) == Market(Some(req.price), 3)

\* execute_trade up to the decision of the gate (lines 49-64)
bot_check(s, trade, req, day) ==
    LET r == run_safety_checks(s.gate, trade, s.portfolio, BotMarket(req),
                               None, None, day)
    IN [approved |-> ~Rejected(r.checks, trade),
        s |-> [s EXCEPT !.gate = r.gate],
        signal |-> r.checks.adjusted_trade]

\* execute_trade from the creation of the order to its recording
\* (lines 66-84)
bot_create(s, signal, req, ms, day) ==
    LET order == _mock_execute(create_order(signal, BotMarket(req), ms, day), day)
        history == Append(s.order_history, order)
    IN [order |-> order,
        s |-> [s EXCEPT !.active_orders = RecordActive(@, order, Len(history)),
                        !.order_history = history]]

\* execute_trade from the position update to its return (lines 86-102)
bot_update(s, order) ==
    LET up == _update_positions(s.positions, order)
    IN [s |-> [s EXCEPT !.positions = up.positions],
        success |-> ~up.raised]

\* on_price_update after execute_trade returned (lines 57-65)
bot_settle(s, trade, success) ==
    IF ~success THEN s
    ELSE IF trade.action = "buy"
      THEN [s EXCEPT !.portfolio.balance = Some(@[1] - trade.amount)]
      ELSE [s EXCEPT !.portfolio.balance = Some(@[1] + trade.amount)]

\* the clock readings of a handler
Stamps(checked_on, ms, created_on) ==
    [checked_on |-> checked_on, created_on |-> created_on, ms |-> ms]

\* on_price_update run from its first line to its last with nothing in
\* between (lines 24-65)
on_price_update(s, req, stamps) ==
    IF req.action = "hold" THEN s
    ELSE LET trade == BotTrade(s.portfolio, req)
             c == bot_check(s, trade, req, stamps.checked_on)
         IN IF ~c.approved THEN bot_settle(c.s, trade, FALSE)
            ELSE LET o == bot_create(c.s, c.signal, req, stamps.ms, stamps.created_on)
                     u == bot_update(o.s, o.order)
                 IN bot_settle(u.s, trade, u.success)

\* a handler that awaits the venue between the decision of the gate and
\* the creation of the order
SuspensionPoints_AwaitVenue == {"create"}

\* the positions of a handler at which it awaits: on_price_update holds no
\* await and execute_trade is a plain function
SuspensionPoints == {}

\* the event loop can run a step of handler id: every other handler is
\* suspended at an await
CanRun(id) ==
    \A j \in DOMAIN inflight :
        inflight[j].id # id => inflight[j].pc \in SuspensionPoints

HandlerAt(pc) == {i \in DOMAIN inflight : inflight[i].pc = pc /\ CanRun(inflight[i].id)}

SetBot(s) ==
    /\ bot_portfolio' = s.portfolio
    /\ SetGate(s.gate)
    /\ active_orders' = s.active_orders
    /\ order_history' = s.order_history
    /\ positions' = s.positions

Started == Len(inflight) + Len(handled)

Complete(h) == Append(handled, [req |-> h.req, stamps |-> h.stamps])

\* a price update arrives on the socket while the loop is busy or idle
Arrive(pair, price, action, positionSize) ==
    /\ Len(requests) + Started < MaxRequests
    /\ requests' = Append(requests,
                          Request(pair, price, action, positionSize, inflight # << >>))
    /\ UNCHANGED <<bot_portfolio, inflight, handled>>
    /\ UNCHANGED <<gateVars, clockVars, execVars, last, result>>
    /\ UNCHANGED <<updates, listenerVars, feedVars, signalVars>>

\* the loop starts the handler of the oldest update: lines 24-52
Begin ==
    /\ requests # << >>
    /\ CanRun(0)
    /\ LET req == Head(requests)
           h == [approved |-> FALSE,
                 id |-> Started + 1,
                 order |-> None,
                 pc |-> "check",
                 req |-> req,
                 signal |-> None,
                 stamps |-> Stamps(today, now_ms, today),
                 success |-> FALSE,
                 trade |-> Some(BotTrade(bot_portfolio, req))]
       IN /\ requests' = Tail(requests)
          /\ IF req.action = "hold"
               THEN /\ handled' = Complete(h)
                    /\ UNCHANGED inflight
               ELSE /\ inflight' = Append(inflight, h)
                    /\ UNCHANGED handled
    /\ UNCHANGED bot_portfolio
    /\ UNCHANGED <<gateVars, clockVars, execVars, last, result>>
    /\ UNCHANGED <<updates, listenerVars, feedVars, signalVars>>

\* line 55 up to the decision of the gate
RiskCheck ==
    \E i \in HandlerAt("check") :
        LET h == inflight[i]
            c == bot_check(CurrentBot, h.trade[1], h.req, today)
        IN /\ SetBot(c.s)
           /\ inflight' = [inflight EXCEPT ![i] =
                             [h EXCEPT !.approved = c.approved,
                                       !.pc = IF c.approved THEN "create" ELSE "settle",
                                       !.signal = Some(c.signal),
                                       !.stamps.checked_on = today]]
           /\ UNCHANGED <<requests, handled>>
           /\ UNCHANGED <<clockVars, risk_manager, exchange_client, last, result>>
           /\ UNCHANGED <<updates, listenerVars, feedVars, signalVars>>

\* the order is created, filled and recorded
CreateOrder ==
    \E i \in HandlerAt("create") :
        LET h == inflight[i]
            o == bot_create(CurrentBot, h.signal[1], h.req, now_ms, today)
        IN /\ Len(order_history) < MaxOrders
           /\ SetBot(o.s)
           /\ inflight' = [inflight EXCEPT ![i] =
                             [h EXCEPT !.order = Some(o.order),
                                       !.pc = "update",
                                       !.stamps.created_on = today,
                                       !.stamps.ms = now_ms]]
           /\ UNCHANGED <<requests, handled>>
           /\ UNCHANGED <<clockVars, risk_manager, exchange_client, last, result>>
           /\ UNCHANGED <<updates, listenerVars, feedVars, signalVars>>

\* the position of the pair is updated and execute_trade returns
UpdatePosition ==
    \E i \in HandlerAt("update") :
        LET h == inflight[i]
            u == bot_update(CurrentBot, h.order[1])
        IN /\ SetBot(u.s)
           /\ inflight' = [inflight EXCEPT ![i] =
                             [h EXCEPT !.pc = "settle", !.success = u.success]]
           /\ UNCHANGED <<requests, handled>>
           /\ UNCHANGED <<clockVars, risk_manager, exchange_client, last, result>>
           /\ UNCHANGED <<updates, listenerVars, feedVars, signalVars>>

\* the balance is updated and the handler returns
Settle ==
    \E i \in HandlerAt("settle") :
        LET h == inflight[i]
        IN /\ SetBot(bot_settle(CurrentBot, h.trade[1], h.success))
           /\ inflight' = SelectSeq(inflight, LAMBDA x : x.id # h.id)
           /\ handled' = Complete(h)
           /\ UNCHANGED requests
           /\ UNCHANGED <<clockVars, risk_manager, exchange_client, last, result>>
           /\ UNCHANGED <<updates, listenerVars, feedVars, signalVars>>

InitBot ==
    /\ config = default_config(2, TRUE)
    /\ today = 0
    /\ now_ms = 0
    /\ InitGateState
    /\ risk_manager = TRUE
    /\ exchange_client = FALSE
    /\ active_orders = << >>
    /\ order_history = << >>
    /\ positions = << >>
    /\ last = [op |-> "init"]
    /\ result = NoResult
    /\ InitAux

NextBot ==
    \/ \E p \in Pairs, c \in BotPrices, a \in BotActions, z \in PositionSizes :
         Arrive(p, c, a, z)
    \/ Begin
    \/ RiskCheck
    \/ CreateOrder
    \/ UpdatePosition
    \/ Settle
    \/ Tick
    \/ NextDay

SpecBot == InitBot /\ [][NextBot]_vars

---------------------------------------------------------------------------
(* OrderBookEngine (src/modules/orderbook_engine.py) and the order book    *)
(* part of MicrostructureModel.get_signal                                  *)
(* (src/modules/microstructure_model.py).                                  *)
(*                                                                         *)
(* A level is the tuple <<price, qty>> of the source; bids and asks map a  *)
(* symbol to its list of levels.  Quantities are whole numbers and a ratio *)
(* of quantities is an exact rational; a threshold is an integer percent   *)
(* (0.1 is 10).                                                            *)

MaxLevels == 2      \* levels on one side of a book
BookQuantities == {0, 1}
BookSymbols == {"BTC/USDT"}
BookExchanges == {"binance", "kraken"}
\* threshold_percent: the default 0.1 of the source, and 0.5
WallThresholds == {10, 50}

Sides(price) ==
    UNION { [1..n -> {<<price, q>> : q \in BookQuantities}] : n \in 0..MaxLevels }

RECURSIVE SumQty(_)
\* sum(qty for _, qty in side)
SumQty(side) ==
    IF side = << >> THEN 0 ELSE side[1][2] + SumQty(Tail(side))

RECURSIVE MaxQty(_)
\* max((qty for _, qty in side), default=0)
MaxQty(side) ==
    IF side = << >> THEN 0 ELSE Max(side[1][2], MaxQty(Tail(side)))

\* a dict with key k set to v
PutKey(d, k, v) == [x \in DOMAIN d \cup {k} |-> IF x = k THEN v ELSE d[x]]

\* an imbalance that reads an empty or weightless book as balanced
calculate_bid_ask_imbalance_ZeroWhenEmpty(b, a, symbol) ==
    IF symbol \notin DOMAIN b \/ symbol \notin DOMAIN a
      THEN Some(RZero)
      ELSE IF b[symbol] = << >> \/ a[symbol] = << >>
             THEN Some(RZero)
             ELSE LET bid_volume == SumQty(b[symbol])
                      ask_volume == SumQty(a[symbol])
                      total_volume == bid_volume + ask_volume
                  IN  IF total_volume = 0
                        THEN Some(RZero)
                        ELSE Some(Rat(bid_volume - ask_volume, total_volume))

\* calculate_bid_ask_imbalance (lines 116-138) on the dicts b and a
calculate_bid_ask_imbalance(b, a, symbol) ==
    IF symbol \notin DOMAIN b \/ symbol \notin DOMAIN a
      THEN None
      ELSE IF b[symbol] = << >> \/ a[symbol] = << >>
             THEN None
             ELSE LET bid_volume == SumQty(b[symbol])
                      ask_volume == SumQty(a[symbol])
                      total_volume == bid_volume + ask_volume
                  IN  IF total_volume = 0
                        THEN None
                        ELSE Some(Rat(bid_volume - ask_volume, total_volume))

\* a wall test that also flags a ratio equal to the threshold
Wall_AtThreshold(max_qty, total, threshold_percent) ==
    IF total > 0
      THEN IF max_qty * 100 >= threshold_percent * total
             THEN Some(Rat(max_qty, total)) ELSE None
      ELSE IF 0 >= threshold_percent THEN Some(RZero) ELSE None

\* max / total if total > 0 else 0, kept if it is > threshold_percent
\* (lines 157-163)
Wall(max_qty, total, threshold_percent) ==
    IF total > 0
      THEN IF max_qty * 100 > threshold_percent * total
             THEN Some(Rat(max_qty, total)) ELSE None
      ELSE IF 0 > threshold_percent THEN Some(RZero) ELSE None

NoWalls == [buy_wall |-> None, sell_wall |-> None]

\* detect_large_walls (lines 140-165) on the dicts b and a
detect_large_walls(b, a, symbol, threshold_percent) ==
    IF symbol \notin DOMAIN b \/ symbol \notin DOMAIN a
      THEN NoWalls
      ELSE IF b[symbol] = << >> \/ a[symbol] = << >>
             THEN NoWalls
             ELSE [buy_wall |-> Wall(MaxQty(b[symbol]), SumQty(b[symbol]),
                                     threshold_percent),
                   sell_wall |-> Wall(MaxQty(a[symbol]), SumQty(a[symbol]),
                                      threshold_percent)]

\* the truth value of an optional float
TruthyRatio(o) == o # None /\ o[1][1] # 0

\* if walls['buy_wall']: +0.3 elif walls['sell_wall']: -0.3
\* (microstructure_model.py lines 102-106)
wall_nudge(walls) ==
    IF TruthyRatio(walls.buy_wall) THEN <<3, 10>>
    ELSE IF TruthyRatio(walls.sell_wall) THEN <<-3, 10>>
    ELSE RZero

\* max(-1.0, min(1.0, signal))
Clamp1(x) ==
    IF x[1] > x[2] THEN <<1, 1>>
    ELSE IF x[1] < -x[2] THEN <<-1, 1>>
    ELSE x

\* the signal of MicrostructureModel.get_signal (lines 87-114) from the
\* order book: 0.6 of the imbalance plus the nudge, clamped.  No caller
\* feeds the volume delta history, so its share is absent.
microstructure_signal(imbalance, walls) ==
    LET weighted == IF imbalance = None THEN RZero
                    ELSE Rat(imbalance[1][1] * 3, imbalance[1][2] * 5)
    IN  Clamp1(RAdd(weighted, wall_nudge(walls)))

\* _update_orderbook (lines 63-74)
_update_orderbook(symbol, b, a) ==
    /\ bids' = PutKey(bids, symbol, b)
    /\ asks' = PutKey(asks, symbol, a)

\* _process_message (lines 96-114) with a message that carries the two
\* sides b and a of a book
ProcessBook(symbol, b, a) ==
    /\ IF book_exchange = "binance"
         THEN _update_orderbook(symbol, b, a)
         ELSE IF b # << >> /\ a # << >>
                THEN _update_orderbook(symbol, b, a)
                ELSE UNCHANGED <<bids, asks>>
    /\ last' = [a |-> a, b |-> b, op |-> "_process_message", symbol |-> symbol]
    /\ result' = NoResult
    /\ UNCHANGED <<book_exchange, imported, taskVars>>
    /\ UNCHANGED <<gateVars, clockVars, execVars, updates, listenerVars, feedVars,
                   botVars>>

CalculateImbalance(symbol) ==
    /\ last' = [op |-> "calculate_bid_ask_imbalance", symbol |-> symbol]
    /\ result' = [imbalance |-> calculate_bid_ask_imbalance(bids, asks, symbol),
                  op |-> "calculate_bid_ask_imbalance"]
    /\ UNCHANGED signalVars
    /\ UNCHANGED <<gateVars, clockVars, execVars, updates, listenerVars, feedVars,
                   botVars>>

DetectLargeWalls(symbol, threshold_percent) ==
    /\ last' = [op |-> "detect_large_walls",
                symbol |-> symbol,
                threshold_percent |-> threshold_percent]
    /\ result' = [op |-> "detect_large_walls",
                  walls |-> detect_large_walls(bids, asks, symbol, threshold_percent)]
    /\ UNCHANGED signalVars
    /\ UNCHANGED <<gateVars, clockVars, execVars, updates, listenerVars, feedVars,
                   botVars>>

\* the part of MicrostructureModel.get_signal after the listen: the walls
\* are detected with the default threshold
MicrostructureSignal(symbol) ==
    LET imbalance == calculate_bid_ask_imbalance(bids, asks, symbol)
        walls == detect_large_walls(bids, asks, symbol, 10)
    IN  /\ last' = [op |-> "get_signal", symbol |-> symbol]
        /\ result' = [imbalance |-> imbalance,
                      nudge |-> wall_nudge(walls),
                      op |-> "get_signal",
                      signal |-> microstructure_signal(imbalance, walls),
                      walls |-> walls]
        /\ UNCHANGED signalVars
        /\ UNCHANGED <<gateVars, clockVars, execVars, updates, listenerVars,
                       feedVars, botVars>>

InitBook ==
    /\ IdleCore
    /\ IdleListener
    /\ IdleFeed
    /\ IdleBot
    /\ book_exchange \in BookExchanges
    /\ bids = << >>
    /\ asks = << >>
    /\ imported = Sources
    /\ IdleTasks

NextBook ==
    \/ \E s \in BookSymbols, b \in Sides(100), a \in Sides(101) : ProcessBook(s, b, a)
    \/ \E s \in BookSymbols : CalculateImbalance(s)
    \/ \E s \in BookSymbols, t \in WallThresholds : DetectLargeWalls(s, t)
    \/ \E s \in BookSymbols : MicrostructureSignal(s)

SpecBook == InitBook /\ [][NextBook]_vars

---------------------------------------------------------------------------
(* The expansion signal of FastMarketListener                              *)
(* (_detect_volatility_expansion, src/modules/fast_market_listener.py      *)
(* lines 100-135), applied to windows of prices.                           *)
(*                                                                         *)
(* The arithmetic is exact.  D is a common multiple of the prices of the   *)
(* window, a return r is held as the whole number r * D, and the standard  *)
(* deviation s of at most two returns as 2 * D * s: it is 0 for one        *)
(* return and |r1 - r2| / 2 for two.  The windows below have at most six   *)
(* prices, so a half has at most two returns.                              *)

min_data_points == 2    \* FastMarketListener.min_data_points, 10 in the source
ExpansionPrices == {500, 501, 502}
ExpansionWindows == UNION { [1..n -> ExpansionPrices] : n \in {3, 4, 5, 6} }

LCM(a, b) == (a \div GCD(a, b)) * b

RECURSIVE CommonMultiple(_)
CommonMultiple(prices) ==
    IF prices = << >> THEN 1 ELSE LCM(prices[1], CommonMultiple(Tail(prices)))

\* np.diff(half) / half[:-1] if len(half) > 1 else [], times D
Returns(half, D) ==
    IF Len(half) > 1
      THEN [i \in 1..(Len(half) - 1) |-> ((half[i + 1] - half[i]) * D) \div half[i]]
      ELSE << >>

\* np.std(returns) if len(returns) > 0 else 0.0, times 2 * D
Std(returns) ==
    CASE Len(returns) = 0 -> 0
      [] Len(returns) = 1 -> 0
      [] Len(returns) = 2 -> Abs(returns[1] - returns[2])

\* vol_second - vol_first, times 2 * D
VolExpansion(prices, D) ==
    LET mid_point == Len(prices) \div 2
        first_half == SubSeq(prices, 1, mid_point)
        second_half == SubSeq(prices, mid_point + 1, Len(prices))
    IN  Std(Returns(second_half, D)) - Std(Returns(first_half, D))

\* an expansion test that a delta of exactly 0.001 passes
Expanding_AtThreshold(delta, D) == 1000 * delta >= 2 * D

\* vol_expansion > 0.001 (line 127)
Expanding(delta, D) == 1000 * delta > 2 * D

\* vol_expansion < -0.001 (line 132)
Contracting(delta, D) == 1000 * delta < -(2 * D)

\* _detect_volatility_expansion on the window of the symbol
_detect_volatility_expansion(prices) ==
    IF Len(prices) < min_data_points * 2
      THEN None
      ELSE LET D == CommonMultiple(prices)
               vol_expansion == VolExpansion(prices, D)
               price_change_up == prices[1] # 0 /\ prices[Len(prices)] > prices[1]
           IN  IF Expanding(vol_expansion, D)
                 THEN IF price_change_up THEN Some(1) ELSE Some(-1)
                 ELSE IF Contracting(vol_expansion, D) THEN Some(0) ELSE Some(0)

DetectVolatilityExpansion(prices) ==
    /\ last' = [op |-> "_detect_volatility_expansion", prices |-> prices]
    /\ result' = [op |-> "_detect_volatility_expansion",
                  value |-> _detect_volatility_expansion(prices)]
    /\ UNCHANGED <<gateVars, clockVars, execVars>>
    /\ UNCHANGED auxVars

InitExpansion ==
    /\ IdleCore
    /\ IdleListener
    /\ IdleFeed
    /\ IdleBot
    /\ IdleSignals

NextExpansion == \E prices \in ExpansionWindows : DetectVolatilityExpansion(prices)

SpecExpansion == InitExpansion /\ [][NextExpansion]_vars

---------------------------------------------------------------------------
(* Signal fusion: StrategyManager.get_alpha_signals and                    *)
(* get_combined_signal (src/strategy_manager.py), and get_combined_signal  *)
(* of the router (src/python_api/routers/alpha_signals.py).                *)
(*                                                                         *)
(* A signal is an integer number of hundredths (0.8 is 80), a weight an    *)
(* integer percent (0.25 is 25), a composite an integer number of ten      *)
(* thousandths (0.2 is 2000).  What a source does when it is asked is an   *)
(* outcome: it returns a value or it raises.                               *)

Answers(v) == [kind |-> "returns", value |-> v]
Raises == [kind |-> "raises", value |-> 0]

\* what each source can do when asked
Outcomes ==
    [alt_data : {Raises, Answers(0), Answers(50)},
     microstructure : {Raises, Answers(0), Answers(80)},
     options_flow : {Raises, Answers(0), Answers(-100)},
     speed : {Raises, Answers(-80), Answers(0), Answers(80)},
     volatility : {Raises, Answers(50), Answers(100)}]

\* the import of every module succeeds, or the one of the options flow
\* engine fails
ImportResults == {Sources, Sources \ {"options_flow"}}

\* the try / except ImportError around the five imports (lines 24-33)
MODULES_AVAILABLE == imported = Sources

\* the signals get_alpha_signals starts from (lines 160-166)
DefaultSignal(s) == IF s = "volatility" THEN 50 ELSE 0
DefaultSignals == [s \in Sources |-> DefaultSignal(s)]

RECURSIVE AskSources(_, _, _)
\* the body of the try of get_alpha_signals (lines 172-203): the sources
\* are asked one after the other, and the first one that raises ends it
AskSources(signals, i, outcomes) ==
    IF i > Len(SourceOrder)
      THEN signals
      ELSE LET s == SourceOrder[i]
           IN  IF outcomes[s].kind = "raises"
                 THEN signals
                 ELSE AskSources([signals EXCEPT ![s] = outcomes[s].value],
                                 i + 1, outcomes)

\* get_alpha_signals (lines 158-206)
get_alpha_signals(outcomes) ==
    IF ~MODULES_AVAILABLE
      THEN DefaultSignals
      ELSE AskSources(DefaultSignals, 1, outcomes)

\* (x - 0.5) * 2
Remap(volatility) == (volatility - 50) * 2

\* the weights written into StrategyManager.get_combined_signal (lines
\* 221-225), which are the defaults of the settings of the router
\* (src/python_api/config/settings.py lines 42-46)
DefaultWeights ==
    [alt_data |-> 20,
     microstructure |-> 25,
     options_flow |-> 15,
     speed |-> 25,
     volatility |-> 15]

\* the weighted sum of lines 220-226, and of lines 250-256 of the router
Combine(weights, signals) ==
    weights.speed * signals.speed
      + weights.alt_data * signals.alt_data
      + weights.microstructure * signals.microstructure
      + weights.options_flow * signals.options_flow
      + weights.volatility * Remap(signals.volatility)

\* an action that is directional at exactly 0.2 and -0.2
Action_AtThreshold(combined_signal) ==
    IF combined_signal >= 2000 THEN "LONG"
    ELSE IF combined_signal <= -2000 THEN "SHORT"
    ELSE "HOLD"

\* if combined_signal > 0.2 ... elif combined_signal < -0.2 ... else
\* (lines 229-234)
Action(combined_signal) ==
    IF combined_signal > 2000 THEN "LONG"
    ELSE IF combined_signal < -2000 THEN "SHORT"
    ELSE "HOLD"

\* StrategyManager.get_combined_signal (lines 208-242); the sources return
\* numbers, so the except branch is not taken
strategy_combined_signal(outcomes) ==
    LET alpha_signals == get_alpha_signals(outcomes)
        combined_signal == Combine(DefaultWeights, alpha_signals)
    IN  [action |-> Action(combined_signal),
         confidence |-> Abs(combined_signal),
         module_signals |-> alpha_signals,
         op |-> "StrategyManager.get_combined_signal",
         signal |-> combined_signal]

\* get_combined_signal of the router (lines 173-306): the services are
\* gathered with return_exceptions=True and looked at one by one
router_combined_signal(weights, outcomes) ==
    LET failed == {s \in Sources : outcomes[s].kind = "raises"}
        signals == [s \in Sources |->
                      IF s \in failed THEN DefaultSignal(s) ELSE outcomes[s].value]
    IN  [components |-> [s \in Sources \ failed |-> signals[s]],
         errors |-> failed,
         module_count |-> Cardinality(Sources \ failed),
         op |-> "router.get_combined_signal",
         signal |-> Combine(weights, signals),
         weights |-> weights]

\* module_weights of the settings: the defaults, and weights from the
\* environment that do not sum to 1
WeightSets ==
    {DefaultWeights,
     [alt_data |-> 50,
      microstructure |-> 50,
      options_flow |-> 50,
      speed |-> 50,
      volatility |-> 50]}

StrategyCombinedSignal(outcomes) ==
    /\ last' = [op |-> "StrategyManager.get_combined_signal", outcomes |-> outcomes]
    /\ result' = strategy_combined_signal(outcomes)
    /\ UNCHANGED <<gateVars, clockVars, execVars>>
    /\ UNCHANGED auxVars

\* the router is served only if every service could import its module
RouterCombinedSignal(weights, outcomes) ==
    /\ imported = Sources
    /\ last' = [op |-> "router.get_combined_signal",
                outcomes |-> outcomes,
                weights |-> weights]
    /\ result' = router_combined_signal(weights, outcomes)
    /\ UNCHANGED <<gateVars, clockVars, execVars>>
    /\ UNCHANGED auxVars

InitFusion ==
    /\ IdleCore
    /\ IdleListener
    /\ IdleFeed
    /\ IdleBot
    /\ IdleBook
    /\ imported \in ImportResults
    /\ IdleTasks

NextFusion ==
    \/ \E o \in Outcomes : StrategyCombinedSignal(o)
    \/ \E w \in WeightSets, o \in Outcomes : RouterCombinedSignal(w, o)

SpecFusion == InitFusion /\ [][NextFusion]_vars

---------------------------------------------------------------------------
(* get_signal calls that run at the same time on the one FastMarketListener *)
(* of the process (fast_market_listener.py lines 137-154 and 178-230).      *)
(*                                                                         *)
(* A call is a coroutine: it stands at the await of websockets.connect     *)
(* ("connecting"), of websocket.recv ("recv") or of asyncio.sleep          *)
(* ("sleeping"), and what it does between two awaits is one step.  A       *)
(* connection is a number, 0 is None.  recv on a connection on which       *)
(* another coroutine already waits is refused by the websockets library    *)
(* with an exception, which the loop answers with sleep(1).                *)

MaxSignalTasks == 2     \* get_signal calls in flight
MaxInserted == 1        \* samples one call inserts
SignalTaskIds == 1..MaxSignalTasks

Waiting(tasks, t, ws) ==
    \E u \in DOMAIN tasks : u # t /\ tasks[u].pc = "recv" /\ tasks[u].ws = ws

\* one turn of the while loop of listen, up to its next await (lines
\* 141-154) or out of the loop, for call t
LoopTurn(tasks, t, time_is_up, connected, ws) ==
    IF time_is_up
      THEN [tasks EXCEPT ![t].pc = "done"]
      ELSE IF ~connected \/ ws = 0
             THEN [tasks EXCEPT ![t].pc = "sleeping"]
             ELSE IF Waiting(tasks, t, ws)
                    THEN [tasks EXCEPT ![t].pc = "sleeping"]
                    ELSE [tasks EXCEPT ![t].pc = "recv", ![t].ws = ws]

otherThanTasks ==
    <<gateVars, clockVars, execVars, last, result, updates, feedVars, botVars,
      book_exchange, bids, asks, imported, listener_exchange, wall>>

\* get_signal is called: if not self.is_connected it awaits connect, else
\* it enters listen (lines 187-191)
StartSignal ==
    LET t == Len(signal_tasks) + 1
        tasks == Append(signal_tasks, [inserted |-> 0, pc |-> "start", ws |-> 0])
    IN  /\ t \in SignalTaskIds
        /\ signal_tasks' =
             IF ~listener_connected
               THEN [tasks EXCEPT ![t].pc = "connecting"]
               ELSE LoopTurn(tasks, t, FALSE, listener_connected, listener_websocket)
        /\ UNCHANGED <<listener_websocket, listener_connected, listener_stream, opened>>
        /\ UNCHANGED <<price_history, timestamp_history>>
        /\ UNCHANGED otherThanTasks

\* websockets.connect returns (lines 47-48), and the call enters listen
ConnectSignal(t) ==
    /\ t \in DOMAIN signal_tasks
    /\ signal_tasks[t].pc = "connecting"
    /\ opened' = opened + 1
    /\ listener_websocket' = opened + 1
    /\ listener_connected' = TRUE
    /\ listener_stream' \in {Some(s) : s \in Symbols}
    /\ signal_tasks' = LoopTurn(signal_tasks, t, FALSE, TRUE, opened + 1)
    /\ UNCHANGED <<price_history, timestamp_history>>
    /\ UNCHANGED otherThanTasks

\* websockets.connect raises: is_connected = False (lines 61-64), and the
\* call enters listen
ConnectSignalFails(t) ==
    /\ t \in DOMAIN signal_tasks
    /\ signal_tasks[t].pc = "connecting"
    /\ listener_connected' = FALSE
    /\ signal_tasks' = LoopTurn(signal_tasks, t, FALSE, FALSE, listener_websocket)
    /\ UNCHANGED <<listener_websocket, listener_stream, opened>>
    /\ UNCHANGED <<price_history, timestamp_history>>
    /\ UNCHANGED otherThanTasks

\* a message arrives on the connection call t waits on: _process_message,
\* then the next turn of the loop
MessageSignal(t, symbol, payload, time_is_up) ==
    LET h == _process_message(listener_exchange, price_history, timestamp_history,
                              symbol, payload, wall)
        tasks == [signal_tasks EXCEPT ![t].inserted = @ + 1]
    IN  /\ t \in DOMAIN signal_tasks
        /\ signal_tasks[t].pc = "recv"
        /\ signal_tasks[t].inserted < MaxInserted
        /\ price_history' = h.price_history
        /\ timestamp_history' = h.timestamp_history
        /\ signal_tasks' = LoopTurn(tasks, t, time_is_up, listener_connected,
                                    listener_websocket)
        /\ UNCHANGED <<listener_websocket, listener_connected, listener_stream, opened>>
        /\ UNCHANGED otherThanTasks

\* recv times out after 5 seconds, or sleep(1) is over: the next turn
WakeSignal(t, time_is_up) ==
    /\ t \in DOMAIN signal_tasks
    /\ signal_tasks[t].pc \in {"recv", "sleeping"}
    /\ signal_tasks' = LoopTurn(signal_tasks, t, time_is_up, listener_connected,
                                listener_websocket)
    /\ UNCHANGED <<listener_websocket, listener_connected, listener_stream, opened>>
    /\ UNCHANGED <<price_history, timestamp_history>>
    /\ UNCHANGED otherThanTasks

InitTasks ==
    /\ IdleCore
    /\ IdleListener
    /\ IdleFeed
    /\ IdleBot
    /\ IdleSignals

NextTasks ==
    \/ StartSignal
    \/ \E t \in SignalTaskIds : ConnectSignal(t)
    \/ \E t \in SignalTaskIds : ConnectSignalFails(t)
    \/ \E t \in SignalTaskIds, s \in Symbols, p \in SamplePrices, u \in BOOLEAN :
         MessageSignal(t, s, Ticker(p), u)
    \/ \E t \in SignalTaskIds, u \in BOOLEAN : WakeSignal(t, u)

SpecTasks == InitTasks /\ [][NextTasks]_vars

---------------------------------------------------------------------------
(* Position accounting for orders that are all filled at one price: the    *)
(* sequences of _update_positions calls in which every order has the       *)
(* filled price of the first                                               *)

UpdateAtSamePrice(order) ==
    /\ last.op = "_update_positions" => order.filled_price = last.order.filled_price
    /\ UpdatePositions(order)

NextSamePrice ==
    \E p \in PosPairs, a \in {"buy", "sell"}, m \in PosAmounts, f \in PosPrices :
        UpdateAtSamePrice(FilledOrder(p, a, m, f))

SpecSamePrice == InitPositions /\ [][NextSamePrice]_vars

---------------------------------------------------------------------------
(* The symbol a sample is recorded under, for a listener that serves       *)
(* get_signal for several symbols in turn (fast_market_listener.py lines   *)
(* 178-230) and for a feed that subscribes to several pairs                *)
(* (websocket_price_feed.py lines 85-105, 230-277).                        *)
(*                                                                         *)
(* A transport delivers tickers of the symbol it was opened or subscribed  *)
(* for.  The get_signal calls come one after the other, so a call is one   *)
(* step: its connect, if it makes one, and the messages its listen         *)
(* receives.                                                               *)

RoutedSymbols == {"BTC/USDT", "ETH/USDT"}
RoutedPairs == <<"BTC/USD", "ETH/USD">>

\* the last price of a symbol, as its ticker stream reports it
StreamPrice(symbol) == IF symbol \in {"BTC/USDT", "BTC/USD"} THEN 10000 ELSE 725

RECURSIVE ListenFor(_, _, _, _)
\* listen(symbol): n messages are received from the transport, each is
\* handed to _process_message with the symbol of the call (lines 141-149)
ListenFor(h, symbol, payload, n) ==
    IF n = 0 THEN h
    ELSE ListenFor(_process_message(listener_exchange, h.price_history,
                                    h.timestamp_history, symbol, payload, wall),
                   symbol, payload, n - 1)

\* get_signal(symbol): connect(symbol) if not self.is_connected (lines
\* 187-188), then the listen of the symbol (line 191)
GetSignal(symbol, outcome, n) ==
    LET connects == ~listener_connected
        connected == IF connects THEN outcome = "ok" ELSE TRUE
        stream == IF connects /\ outcome = "ok" THEN Some(symbol) ELSE listener_stream
        h == ListenFor(ListenerPre, symbol, Ticker(StreamPrice(stream[1])), n)
    IN  /\ n > 0 => connected
        /\ IF connects /\ outcome = "ok"
             THEN /\ opened < MaxSignalTasks
                  /\ opened' = opened + 1
                  /\ listener_websocket' = opened + 1
             ELSE UNCHANGED <<opened, listener_websocket>>
        /\ listener_connected' = connected
        /\ listener_stream' = stream
        /\ price_history' = h.price_history
        /\ timestamp_history' = h.timestamp_history
        /\ last' = [op |-> "get_signal",
                    received |-> n,
                    stream |-> stream,
                    symbol |-> symbol]
        /\ result' = NoResult
        /\ UNCHANGED signal_tasks
        /\ UNCHANGED <<gateVars, clockVars, execVars, updates, feedVars, botVars,
                       book_exchange, bids, asks, imported, listener_exchange, wall>>

\* FastMarketListener.disconnect (lines 213-217)
DisconnectListener ==
    /\ listener_websocket # 0
    /\ listener_connected' = FALSE
    /\ last' = [op |-> "listener_disconnect"]
    /\ result' = NoResult
    /\ UNCHANGED <<listener_websocket, listener_stream, opened, signal_tasks>>
    /\ UNCHANGED <<gateVars, clockVars, execVars, updates, listenerVars, feedVars,
                   botVars, book_exchange, bids, asks, imported>>

\* a ticker of a subscribed pair arrives at the feed (lines 240-251): it is
\* stored and delivered under the pair _extract_pair_from_message returns
RecvTicker(about) ==
    LET payload == ListTicker(StreamPrice(about))
        parsed == parse_message(exchange, payload)
        pair == _extract_pair_from_message(subscriptions)
    IN /\ feed_pc = "recv"
       /\ websocket = "open"
       /\ \E i \in DOMAIN subscriptions : subscriptions[i] = about
       /\ Len(delivered) < MaxDelivered
       /\ feed_event' = [about |-> about,
                         kind |-> "ticker",
                         payload |-> Some(payload),
                         pre |-> FeedPre]
       /\ feed_pc' = "loop"
       /\ IF Accepted(parsed) /\ pair # None
            THEN /\ price_data' = PutPrice(price_data, pair[1], parsed.value)
                 /\ delivered' = Append(delivered, [pair |-> pair[1], price_data |-> parsed.value])
            ELSE UNCHANGED <<price_data, delivered>>
       /\ UNCHANGED <<exchange, websocket, is_connected, is_running, reconnect_attempts,
                      subscriptions, last, result>>
       /\ UNCHANGED otherThanFeed

InitRouting ==
    /\ IdleCore
    /\ IdleListener
    /\ IdleFeed
    /\ IdleBot
    /\ IdleSignals

NextRouting ==
    \/ \E s \in RoutedSymbols, o \in {"ok", "refused"}, n \in 0..MaxInserted :
         GetSignal(s, o, n)
    \/ DisconnectListener
    \/ \E o \in {"ok", "refused"} : Connect(RoutedPairs, o)
    \/ Listen
    \/ LoopTop
    \/ Wake
    \/ \E i \in DOMAIN RoutedPairs : RecvTicker(RoutedPairs[i])

SpecRouting == InitRouting /\ [][NextRouting]_vars

---------------------------------------------------------------------------
(* Properties of the risk gate, checked under SpecGate *)

IsCheck == last.op = "run_safety_checks"

\* the kinds of the errors of a result
ErrorKinds(checks) == {checks.errors[i].kind : i \in DOMAIN checks.errors}

\* the balance run_safety_checks works with
CheckBalance == Get(last.portfolio.balance, 100)

\* C1: a rejected result of run_safety_checks carries the error of exactly
\* one check, the first one that failed, and only the daily loss check
\* changes the pause flag
C1_FailFast ==
    (IsCheck /\ ~result.allowed) =>
        /\ Len(result.errors) = 1
        /\ (is_trading_paused # last.pre.is_trading_paused
              => result.errors[1].kind = "daily_loss")

\* C2: a run_safety_checks call made while the pause flag is set is rejected
\* with one error that carries the stored pause reason, whatever the trade,
\* the portfolio and the market are
C2_PausedRejects ==
    (IsCheck /\ last.pre.is_trading_paused) =>
        /\ ~result.allowed
        /\ last.pre.pause_reason # None
        /\ result.errors = <<[kind |-> "paused", reason |-> last.pre.pause_reason]>>

C2_Witness ==
    /\ IsCheck
    /\ last.pre.is_trading_paused
    /\ last.pre.pause_reason[1].text = "Daily loss limit exceeded"
    /\ last.pre.daily_stats.trades > 0
    /\ last.trade.amount = 10000
    /\ last.portfolio.balance = Some(100000)
    /\ ~result.allowed

\* the loss check of an unpaused gate below its trade limit sees a balance
\* that fell below the day-start balance by the loss limit or more
C3_LossCase ==
    /\ IsCheck
    /\ ~last.pre.is_trading_paused
    /\ daily_stats.trades < config.max_daily_trades
    /\ daily_stats.start_balance # None
    /\ daily_stats.start_balance[1] > 0
    /\ CheckBalance < daily_stats.start_balance[1]
    /\ (daily_stats.start_balance[1] - CheckBalance) * 100
          >= config.max_daily_loss_percentage * daily_stats.start_balance[1]

C3_Rejected ==
    C3_LossCase =>
        /\ ~result.allowed
        /\ "daily_loss" \in ErrorKinds(result)
        /\ (config.stop_trading_on_loss => is_trading_paused /\ pause_reason # None)

\* a step other than resume_trading and reset_daily_stats leaves a paused
\* gate paused, and a run_safety_checks call on a paused gate is rejected
C3_StaysPaused ==
    (is_trading_paused /\ last'.op \notin {"resume_trading", "reset_daily_stats"}) =>
        /\ is_trading_paused'
        /\ (last'.op = "run_safety_checks" => ~result'.allowed)

\* C3: on an unpaused gate below its trade limit, a balance that fell below
\* the day-start balance by max_daily_loss_percentage or more is rejected,
\* with stop_trading_on_loss the gate is paused, and it stays paused and
\* rejecting until it is resumed or reset
C3_LossLimit == []C3_Rejected /\ [][C3_StaysPaused]_vars

C3_Witness ==
    /\ C3_LossCase
    /\ daily_stats.start_balance = Some(100000)
    /\ last.portfolio.balance = Some(74000)
    /\ config.stop_trading_on_loss
    /\ is_trading_paused
    /\ ~result.allowed

\* the position size check is reached and the trade is over the maximum
C5_OverSize ==
    /\ IsCheck
    /\ ~last.pre.is_trading_paused
    /\ daily_stats.trades < config.max_daily_trades
    /\ last.portfolio.balance # None
    /\ CheckBalance > 0
    /\ last.trade.amount * 100 > config.max_position_size_percentage * CheckBalance

\* C5: a trade over the maximum position size is rejected and the suggested
\* amount of the result is balance x max_position_size_percentage, the
\* caller's trade being left as it was
C5_SuggestedClamp ==
    C5_OverSize =>
        /\ ~result.allowed
        /\ result.adjusted_trade.amount * 100
              = CheckBalance * config.max_position_size_percentage
        /\ [result.adjusted_trade EXCEPT !.amount = last.trade.amount] = last.trade

---------------------------------------------------------------------------
(* Properties of the position accounting, checked under SpecPositions *)

IsUpdate == last.op = "_update_positions"

\* the position of the updated pair before and after the update
C12_Old ==
    IF HasPosition(last.pre.positions, last.order.pair)
      THEN last.pre.positions[last.order.pair] ELSE EmptyPosition
C12_New == positions[last.order.pair]

\* x = y + a/p and x = y - a/p for rationals x, y and integers a, p > 0
C12_IsSum(x, y, a, p) == x[1] * y[2] * p = (y[1] * p + a * y[2]) * x[2]
C12_IsDifference(x, y, a, p) == x[1] * y[2] * p = (y[1] * p - a * y[2]) * x[2]

\* C12: a BUY of amount a filled at p gives size + a/p, total cost + a and
\* the average entry (total cost + a) / new size; a SELL gives
\* max(0, size - a/p) and an empty position has entry and cost basis 0
C12_WeightedAverageCost ==
    IsUpdate =>
        LET a == last.order.amount
            p == last.order.filled_price[1]
        IN IF last.order.type = "BUY"
             THEN /\ C12_IsSum(C12_New.size, C12_Old.size, a, p)
                  /\ C12_New.total_cost = C12_Old.total_cost + a
                  /\ C12_New.entry_price[1] * C12_New.size[1]
                        = C12_New.total_cost * C12_New.size[2] * C12_New.entry_price[2]
             ELSE /\ IF a * C12_Old.size[2] >= C12_Old.size[1] * p
                       THEN C12_New.size = RZero
                       ELSE C12_IsDifference(C12_New.size, C12_Old.size, a, p)
                  /\ (C12_New.size = RZero =>
                        C12_New.entry_price = RZero /\ C12_New.total_cost = 0)

\* the sell of 100 at 50 that empties the position bought by 100 at 50
C12_Witness ==
    /\ IsUpdate
    /\ last.order.type = "SELL"
    /\ last.order.amount = 10000
    /\ last.order.filled_price = Some(5000)
    /\ C12_Old = [entry_price |-> <<5000, 1>>, size |-> <<2, 1>>, total_cost |-> 10000]
    /\ C12_New = EmptyPosition

\* C13: the size of every position is at least 0
C13_SizeNeverNegative ==
    \A pair \in DOMAIN positions : positions[pair].size[1] >= 0

\* a sell larger than the held size, with a second pair held
C13_Witness ==
    /\ IsUpdate
    /\ last.order.type = "SELL"
    /\ RPos(C12_Old.size)
    /\ last.order.amount * C12_Old.size[2] > C12_Old.size[1] * last.order.filled_price[1]
    /\ C12_New.size = RZero
    /\ \E other \in DOMAIN positions :
          other # last.order.pair /\ RPos(positions[other].size)

---------------------------------------------------------------------------
(* Properties of the order lifecycle manager, checked under Spec *)

IsExecute == last.op = "execute_trade"

\* the orders of the history created on a day
OrdersOfDay(d) == {i \in DOMAIN order_history : order_history[i].timestamp = d}

\* C4: with a risk gate attached, no calendar day sees more than
\* max_daily_trades orders created
C4_DailyOrderCap ==
    risk_manager =>
        \A d \in 0..today : Cardinality(OrdersOfDay(d)) <= config.max_daily_trades

\* the gate rejected the trade of the last execute_trade call
GateRejected == IsExecute /\ last.checks # None /\ ~last.checks[1].allowed

\* C7: when the risk gate rejects the trade, execute_trade fails with the
\* gate's errors and leaves active orders, history and positions unchanged
C7_RejectionCreatesNoOrder ==
    GateRejected =>
        /\ ~result.success
        /\ result.details = last.checks[1].errors
        /\ active_orders = last.pre.active_orders
        /\ order_history = last.pre.order_history
        /\ positions = last.pre.positions

C7_Witness ==
    /\ GateRejected
    /\ "position_size" \in ErrorKinds(last.checks[1])
    /\ last.checks[1].adjusted_trade.amount = 30000
    /\ Len(order_history) = 1
    /\ ~result.success

\* C8: no order of the history or of the active set is left pending after
\* execute_trade: each is filled or in a failure status
C8_NoPendingOrder ==
    \A i \in DOMAIN order_history : order_history[i].status \in Terminal

\* C9: an order that reached a terminal status keeps that status
C9_TerminalIsFinal ==
    [][\A i \in DOMAIN order_history :
          order_history[i].status \in Terminal
            => order_history'[i].status = order_history[i].status]_vars

\* cancel_order was called for an active order in a non-terminal status
C10_Cancellable ==
    /\ last.order_id \in ActiveIds(last.pre.active_orders)
    /\ last.pre.order_history[ActiveRef(last.pre.active_orders, last.order_id)].status
          \notin Terminal

\* C10: cancel_order succeeds exactly for an active order in a non-terminal
\* status, which it removes from the active set, the history then holding
\* the record of its cancellation; otherwise it fails and changes nothing
C10_CancelOnlyNonTerminal ==
    last.op = "cancel_order" =>
        IF C10_Cancellable
          THEN /\ result.success
               /\ last.order_id \notin ActiveIds(active_orders)
               /\ \E i \in DOMAIN order_history :
                     /\ order_history[i].id = last.order_id
                     /\ order_history[i].status = "cancelled"
          ELSE /\ ~result.success
               /\ active_orders = last.pre.active_orders
               /\ order_history = last.pre.order_history
               /\ positions = last.pre.positions

\* C11: the order history is an append-only, immutable log: a step never
\* shortens it and never removes or changes an entry already recorded
C11_HistoryAppendOnly ==
    [][/\ Len(order_history') >= Len(order_history)
       /\ \A i \in DOMAIN order_history : order_history'[i] = order_history[i]]_vars

\* the scan must close this order: it is filled and the price is at or below
\* its stop loss, or at or above its take profit
C14_Crossed(order, price) ==
    /\ order.status = "filled"
    /\ \/ order.stop_loss # None /\ price <= order.stop_loss[1]
       \/ order.take_profit # None /\ price >= order.take_profit[1]

\* the orders of the active set that the scan must close, in scan order
C14_Due ==
    LET pre == last.pre
        price == last.market_data.price[1]
        due == SelectSeq(pre.active_orders,
                         LAMBDA e : C14_Crossed(pre.order_history[e.ref], price))
    IN [k \in DOMAIN due |-> pre.order_history[due[k].ref]]

\* C14: check_stop_loss_take_profit returns exactly one closing sell order
\* for each active filled order whose stop loss or take profit the current
\* price reached (the levels themselves included), and none for any other
C14_ClosingOrders ==
    last.op = "check_stop_loss_take_profit" =>
        /\ Len(result.triggered_orders) = Len(C14_Due)
        /\ \A k \in DOMAIN C14_Due :
              /\ result.triggered_orders[k].type = "SELL"
              /\ result.triggered_orders[k].pair = C14_Due[k].pair
              /\ result.triggered_orders[k].amount = C14_Due[k].amount
              /\ result.triggered_orders[k].price = last.market_data.price[1]

\* a scan at the stop loss level itself, with a filled order that has no
\* levels left alone next to the one that is closed
C14_Witness ==
    /\ last.op = "check_stop_loss_take_profit"
    /\ last.market_data.price = Some(4000)
    /\ Len(last.pre.active_orders) = 2
    /\ Len(result.triggered_orders) = 1
    /\ \A e \in {last.pre.active_orders[i] : i \in DOMAIN last.pre.active_orders} :
          last.pre.order_history[e.ref].status = "filled"

---------------------------------------------------------------------------
(* Properties of the rolling window, checked under SpecListener *)

\* the last message made _process_message insert a sample
C16_Inserted ==
    /\ last.op = "_process_message"
    /\ LET price == ListenerPrice(listener_exchange, last.payload)
       IN ~price.raised /\ Truthy(price.value) /\ price.value[1] > 0

\* C16: immediately after an insert the window of the symbol holds no
\* sample older than the time of the insert less window_seconds, and no
\* more than maxlen samples
C16_WindowBounded ==
    C16_Inserted =>
        LET t == timestamp_history[last.symbol]
        IN /\ Len(t) <= maxlen
           /\ Len(price_history[last.symbol]) = Len(t)
           /\ \A i \in DOMAIN t : t[i] >= last.timestamp - window_seconds

---------------------------------------------------------------------------
(* Properties of the feed connection, checked under SpecFeed and           *)
(* SpecFeedLive                                                            *)

\* the feed is DORMANT: the listen loop was stopped by _reconnect
Dormant == ~is_running

\* C17: a feed whose reconnect attempt failed goes on to reconnect or, its
\* max_reconnect_attempts used up, to DORMANT
C17_DormantAfterFailures ==
    (feed_event.kind = "reconnect_failed") ~> (is_connected \/ Dormant)

\* C18: once disconnect() was called the transport is closed and
\* is_connected is false, whatever the listen loop does afterwards
C18_DisconnectStays ==
    last.op = "disconnect" => (~is_connected /\ websocket # "open")

\* C19: a keepalive probe that fails is treated as a transport close: the
\* connection is marked not connected
C19_ProbeFailureIsClose ==
    feed_event.kind = "probe_failed" => ~is_connected

---------------------------------------------------------------------------
(* Properties of the message handling, checked under SpecIngest *)

\* the shape of a ticker of the exchange
C20_TickerShape(exch) == IF exch = "kraken" THEN "list" ELSE "dict"

\* the payload cannot be turned into a record: invalid JSON, an unexpected
\* envelope shape, or a price field that is no number
C20_Unparsable(exch, payload) ==
    \/ payload \in BadPayloads
    \/ payload.shape # C20_TickerShape(exch)

\* the last message of the feed was unparsable
C20_FeedCase ==
    feed_event.kind = "message" /\ C20_Unparsable(exchange, feed_event.payload[1])

\* the last message of the listener was unparsable
C20_ListenerCase ==
    last.op = "_process_message" /\ C20_Unparsable(listener_exchange, last.payload)

\* C20: an unparsable payload is dropped: the stored price data and the
\* rolling window stay as they were, no callback is called, and the listen
\* loop goes on
C20_UnparsableDropped ==
    /\ C20_FeedCase =>
          /\ price_data = feed_event.pre.price_data
          /\ delivered = feed_event.pre.delivered
          /\ feed_pc \in {"loop", "sleep"}
    /\ C20_ListenerCase =>
          /\ price_history = last.pre.price_history
          /\ timestamp_history = last.pre.timestamp_history

\* a price field that is no number reaches a feed and a listener that both
\* hold data: the parser of the feed raised and the loop sleeps
C20_Witness ==
    /\ C20_FeedCase
    /\ feed_event.payload[1].price_kind = "text"
    /\ feed_pc = "sleep"
    /\ price_data # << >>
    /\ C20_ListenerCase
    /\ last.payload.price_kind = "text"
    /\ price_history # << >>

---------------------------------------------------------------------------
(* Properties of the handlers of the bot, checked under SpecBot *)

\* the orders in which n handlers can run one after the other
C15_Orders(n) ==
    {f \in [1..n -> 1..n] : \A i, j \in 1..n : f[i] = f[j] => i = j}

RECURSIVE C15_Serial(_, _, _)
\* the handlers f[1], ..., f[k] of the handled updates run one after the
\* other from the state a bot is constructed with
C15_Serial(f, k, s0) ==
    IF k = 0 THEN s0
    ELSE on_price_update(C15_Serial(f, k - 1, s0),
                         handled[f[k]].req, handled[f[k]].stamps)

C15_Fresh ==
    BotState([balance |-> Some(100000)],
             Gate([last_reset |-> 0, loss |-> 0, start_balance |-> None, trades |-> 0],
                  FALSE, None),
             << >>, << >>, << >>)

---------------------------------------------------------------------------
(* Properties of run_safety_checks over the wide grid, checked under       *)
(* SpecChecks, and of record_trade, checked under SpecGate                  *)

\* the volatility check of the last call was reached: the gate was not
\* paused, the trade limit was not reached and the loss limit did not reject
C27_Reached ==
    /\ IsCheck
    /\ ~last.pre.is_trading_paused
    /\ daily_stats.trades < config.max_daily_trades
    /\ "daily_loss" \notin ErrorKinds(result)

C27_Warnings == {result.warnings[i] : i \in DOMAIN result.warnings}

\* C27: when the volatility check is reached, a volatility at or above the
\* threshold rejects the trade, and a volatility between 70% and 100% of
\* the threshold adds the soft warning and no volatility error
C27_VolatilityGate ==
    C27_Reached =>
        /\ last.market_data.volatility >= config.volatility_threshold
             => (~result.allowed /\ "volatility" \in ErrorKinds(result))
        /\ (/\ last.market_data.volatility * 10 > config.volatility_threshold * 7
            /\ last.market_data.volatility < config.volatility_threshold)
             => (/\ "high_volatility" \in C27_Warnings
                 /\ "volatility" \notin ErrorKinds(result))

\* C28: run_safety_checks never allows a trade of a portfolio whose balance
\* is zero or negative
C28_NoTradeOnEmptyBalance ==
    (IsCheck /\ last.portfolio.balance # None /\ last.portfolio.balance[1] <= 0)
        => ~result.allowed

\* a trade without an amount of a portfolio with a zero balance passes every
\* other check and is rejected by the balance check alone
C28_Witness ==
    /\ IsCheck
    /\ last.portfolio.balance = Some(0)
    /\ last.trade.amount = 0
    /\ ~result.allowed
    /\ ErrorKinds(result) = {"balance"}

IsRecord == last.op = "record_trade"

\* the loss limit of record_trade: cumulative loss / day-start balance
C29_LossLimit ==
    /\ config.stop_trading_on_loss
    /\ daily_stats.start_balance # None
    /\ daily_stats.start_balance[1] > 0
    /\ daily_stats.loss * 100
         >= config.max_daily_loss_percentage * daily_stats.start_balance[1]

\* C29: record_trade adds one to the daily trade count, adds |pnl| to the
\* daily loss for a negative pnl and leaves it otherwise, sets the pause
\* flag at the loss limit, and never clears the pause flag
C29_RecordTrade ==
    IsRecord =>
        /\ daily_stats.trades = last.pre.daily_stats.trades + 1
        /\ daily_stats.loss =
             IF last.profit_loss < 0
               THEN last.pre.daily_stats.loss + Abs(last.profit_loss)
               ELSE last.pre.daily_stats.loss
        /\ daily_stats.loss >= last.pre.daily_stats.loss
        /\ C29_LossLimit => is_trading_paused
        /\ last.pre.is_trading_paused => is_trading_paused

\* a profit recorded after a loss, and a loss that crosses the limit and
\* pauses a gate that was not paused
C29_Witness ==
    /\ IsRecord
    /\ last.pre.daily_stats.loss > 0
    /\ last.profit_loss < 0
    /\ ~last.pre.is_trading_paused
    /\ is_trading_paused
    /\ daily_stats.trades = 2

\* C30: a result of run_safety_checks is rejected exactly when it carries an
\* error; warnings alone leave it allowed
C30_AllowedIffNoErrors ==
    IsCheck => (result.allowed <=> result.errors = << >>)

\* a trade that is allowed with a warning, and no error
C30_Witness ==
    /\ IsCheck
    /\ result.allowed
    /\ result.warnings # << >>
    /\ result.errors = << >>

---------------------------------------------------------------------------
(* Properties of the order book engine, checked under SpecBook *)

IsImbalance == result.op = "calculate_bid_ask_imbalance"
IsWalls == result.op = "detect_large_walls"

\* the book of a symbol has no level on one side at least, or no book at all
BookEmpty(symbol) ==
    \/ symbol \notin DOMAIN bids
    \/ symbol \notin DOMAIN asks
    \/ bids[symbol] = << >>
    \/ asks[symbol] = << >>

\* C24: calculate_bid_ask_imbalance returns no signal or a value within
\* [-1, 1], and for an empty book it returns no signal, never 0
C24_ImbalanceInRange ==
    IsImbalance =>
        /\ result.imbalance # None =>
             /\ -result.imbalance[1][2] <= result.imbalance[1][1]
             /\ result.imbalance[1][1] <= result.imbalance[1][2]
        /\ BookEmpty(last.symbol) => result.imbalance = None

\* an imbalance at the lower end of the range: every ask, no bid quantity
C24_Witness ==
    /\ IsImbalance
    /\ ~BookEmpty(last.symbol)
    /\ SumQty(bids[last.symbol]) = 0
    /\ result.imbalance = Some(<<-1, 1>>)

\* a side with quantity is flagged exactly when the share of its largest
\* level is above the threshold, and a flagged side reports that share
SideFlagged(side, flag, threshold_percent) ==
    /\ flag # None <=> MaxQty(side) * 100 > threshold_percent * SumQty(side)
    /\ flag # None => flag = Some(Rat(MaxQty(side), SumQty(side)))

---------------------------------------------------------------------------
(* Properties of the expansion signal, checked under SpecExpansion *)

IsExpansion == result.op = "_detect_volatility_expansion"

\* 2 * D times the difference of the standard deviations of the returns of
\* the second and of the first half of the last window, and 2 * D
C26_Scale == 2 * CommonMultiple(last.prices)
C26_Delta == VolExpansion(last.prices, CommonMultiple(last.prices))

\* C26: the expansion signal is non-zero only for a window of at least
\* 2 * min_data_points prices whose second half has a standard deviation of
\* returns more than 0.001 above that of the first half; a difference of
\* exactly 0.001 or -0.001, or anything below 0.001, gives 0
C26_Expansion ==
    IsExpansion =>
        /\ (result.value # None /\ result.value # Some(0)) =>
             /\ Len(last.prices) >= 2 * min_data_points
             /\ 1000 * C26_Delta > C26_Scale
        /\ (Len(last.prices) >= 2 * min_data_points
              /\ 1000 * C26_Delta <= C26_Scale) => result.value = Some(0)

\* a difference of exactly 0.001: no signal
C26_Witness ==
    /\ IsExpansion
    /\ Len(last.prices) >= 2 * min_data_points
    /\ 1000 * C26_Delta = C26_Scale
    /\ result.value = Some(0)

---------------------------------------------------------------------------
(* Properties of the signal fusion, checked under SpecFusion *)

IsStrategyFusion == result.op = "StrategyManager.get_combined_signal"
IsRouterFusion == result.op = "router.get_combined_signal"

\* C23: the composite of StrategyManager.get_combined_signal is the sum of
\* weight times signal over the signals it fuses, the volatility remapped
\* as 2 * (x - 0.5) and the weights not renormalized; the action is LONG
\* iff the composite is above 0.2, SHORT iff it is below -0.2 and HOLD
\* otherwise; neutral signals give composite 0 and HOLD.  The composite of
\* the router is that sum with the weights of the settings as they are.
C23_Fusion ==
    /\ IsStrategyFusion =>
         /\ result.signal =
              25 * result.module_signals.speed
                + 20 * result.module_signals.alt_data
                + 25 * result.module_signals.microstructure
                + 15 * result.module_signals.options_flow
                + 15 * 2 * (result.module_signals.volatility - 50)
         /\ result.action = "LONG" <=> result.signal > 2000
         /\ result.action = "SHORT" <=> result.signal < -2000
         /\ result.action = "HOLD" <=>
              (result.signal >= -2000 /\ result.signal <= 2000)
         /\ result.module_signals = DefaultSignals =>
              (result.signal = 0 /\ result.action = "HOLD")
    /\ (IsRouterFusion /\ result.errors = {}) =>
         result.signal =
           last.weights.speed * last.outcomes.speed.value
             + last.weights.alt_data * last.outcomes.alt_data.value
             + last.weights.microstructure * last.outcomes.microstructure.value
             + last.weights.options_flow * last.outcomes.options_flow.value
             + last.weights.volatility * 2 * (last.outcomes.volatility.value - 50)

\* a composite of exactly 0.2 from a speed signal of 0.8: HOLD
C23_Witness ==
    /\ IsStrategyFusion
    /\ result.module_signals.speed = 80
    /\ result.signal = 2000
    /\ result.action = "HOLD"

\* the sources that failed or were unavailable at the last fusion
C22_Failed ==
    {s \in Sources : s \notin imported \/ last.outcomes[s].kind = "raises"}

\* the signal each source contributes when the failed ones are replaced
C22_Expected ==
    [s \in Sources |->
        IF s \in C22_Failed THEN DefaultSignal(s) ELSE last.outcomes[s].value]

\* the weights of the last fusion
C22_Weights == IF IsRouterFusion THEN last.weights ELSE DefaultWeights

\* the sources the result names as substituted
C22_Recorded == IF "errors" \in DOMAIN result THEN result.errors ELSE {}

\* C22: when one source fails or is unavailable the composite is still
\* produced from the neutral default of that source and the actual values
\* of all the others, and the result records the substitution
C22_FailureIsolated ==
    ((IsStrategyFusion \/ IsRouterFusion) /\ Cardinality(C22_Failed) = 1) =>
        /\ result.signal = Combine(C22_Weights, C22_Expected)
        /\ C22_Recorded = C22_Failed

---------------------------------------------------------------------------
(* Properties of concurrent get_signal calls, checked under SpecTasks *)

\* the calls that are inside their listen loop and have inserted a sample
\* into the window of the symbol
C21_Writers ==
    {t \in DOMAIN signal_tasks :
        /\ signal_tasks[t].pc \in {"recv", "sleeping"}
        /\ signal_tasks[t].inserted > 0}

\* C21: at any time at most one listen sequence receives from the
\* transport and inserts samples into the window of a symbol, also when
\* several get_signal calls for the symbol run at the same time
C21_OneWriter == Cardinality(C21_Writers) <= 1

---------------------------------------------------------------------------
(* Properties of the retries of the feed, checked under SpecFeedLive *)

\* C31: a reconnect attempt that fails with attempts left is followed by
\* another attempt (the count of attempts grows), unless a connect
\* succeeded or the feed was stopped in between
C31_RetryFollowsFailure ==
    \A n \in 0..(max_reconnect_attempts - 1) :
        (feed_event.kind = "reconnect_failed" /\ reconnect_attempts = n)
            ~> (reconnect_attempts > n \/ is_connected \/ ~is_running)

---------------------------------------------------------------------------
(* Properties of the imbalance of a book with levels on one side only,     *)
(* checked under SpecBook                                                  *)

\* the levels a side of the book holds for a symbol
C33_Levels(side, symbol) ==
    IF symbol \in DOMAIN side THEN side[symbol] ELSE << >>

\* the denominator of the imbalance: all bid and all ask quantity
C33_Denominator ==
    SumQty(C33_Levels(bids, last.symbol)) + SumQty(C33_Levels(asks, last.symbol))

\* C33: for every book, a one-sided one included,
\* calculate_bid_ask_imbalance returns (bid - ask) / (bid + ask) when the
\* denominator is not zero, and no signal exactly when it is zero
C33_DefinedIffDenominator ==
    IsImbalance =>
        IF C33_Denominator = 0
          THEN result.imbalance = None
          ELSE result.imbalance =
                 Some(Rat(SumQty(C33_Levels(bids, last.symbol))
                            - SumQty(C33_Levels(asks, last.symbol)),
                          C33_Denominator))

---------------------------------------------------------------------------
(* Properties of the direction of an expansion, checked under              *)
(* SpecExpansion                                                           *)

\* (last_price - first_price) / first_price of the window, times the first
\* price: the prices are positive, so the sign is that of the price change
C34_Change == last.prices[Len(last.prices)] - last.prices[1]

\* C34: when expansion is detected the result is +1 exactly when the price
\* change over the whole window is positive and -1 exactly when it is
\* negative
C34_SignOfChange ==
    (IsExpansion /\ result.value \in {Some(1), Some(-1)}) =>
        /\ result.value = Some(1) <=> C34_Change > 0
        /\ result.value = Some(-1) <=> C34_Change < 0

---------------------------------------------------------------------------
(* Properties of the first day of a risk gate, checked under SpecGate *)

\* the last call was the first run_safety_checks of a freshly constructed
\* gate, on the day of its construction, and it saw a balance
C35_FirstCall ==
    /\ IsCheck
    /\ last.pre = Gate([last_reset |-> last.now,
                        loss |-> 0,
                        start_balance |-> None,
                        trades |-> 0], FALSE, None)
    /\ Truthy(last.portfolio.balance)

\* the balance of the next call is below the balance of the first call by
\* max_daily_loss_percentage or more
C35_FallenByLimit ==
    /\ last'.portfolio.balance # None
    /\ (last.portfolio.balance[1] - last'.portfolio.balance[1]) * 100
         >= config.max_daily_loss_percentage * last.portfolio.balance[1]

\* a run_safety_checks call that follows the first call of a fresh gate on
\* the same day, with a balance fallen by the loss limit, is not allowed
C35_SecondCall ==
    (C35_FirstCall
       /\ last'.op = "run_safety_checks"
       /\ last'.now = last.now
       /\ C35_FallenByLimit) => ~result'.allowed

\* C35: the first run_safety_checks call of a fresh gate establishes the
\* day-start balance, so that within the first day a trade is not allowed
\* once the balance fell by max_daily_loss_percentage or more below the
\* balance of that first call
C35_FirstDayLossLimit == [][C35_SecondCall]_vars

---------------------------------------------------------------------------
(* Properties of a paused risk gate, checked under SpecGate *)

\* a run_safety_checks call on a paused gate leaves the gate as it was:
\* trade count, loss, day-start balance, reset date, pause flag and reason
C36_NoChangeWhilePaused ==
    (IsCheck /\ last.pre.is_trading_paused) => CurrentGate = last.pre

\* a step that clears the pause is a resume_trading or a reset_daily_stats
\* call
C36_ClearedOnlyByResumeOrReset ==
    (is_trading_paused /\ ~is_trading_paused') =>
        /\ last'.op \in {"resume_trading", "reset_daily_stats"}
        /\ last' # last

\* C36: while the gate is paused run_safety_checks changes no gate state,
\* on a later calendar day neither, and only resume_trading or an explicit
\* reset_daily_stats clears a pause
C36_PausePersists ==
    []C36_NoChangeWhilePaused /\ [][C36_ClearedOnlyByResumeOrReset]_vars

\* a gate paused by the loss limit is asked on a later day, with a balance
\* that would roll the day over, and is still paused on the old day's
\* statistics
C36_Witness ==
    /\ IsCheck
    /\ last.pre.is_trading_paused
    /\ last.pre.pause_reason[1].text = "Daily loss limit exceeded"
    /\ last.now # last.pre.daily_stats.last_reset
    /\ Truthy(last.portfolio.balance)
    /\ is_trading_paused
    /\ daily_stats.last_reset # last.now
    /\ ~result.allowed

---------------------------------------------------------------------------
(* Properties of the position accounting, checked under SpecSamePrice and  *)
(* SpecPositions                                                           *)

\* C37: when every buy and sell was filled at the same price p, the
\* average entry price of every non-empty position is p, also after a
\* partial sell that is followed by a further buy
C37_EntryIsFillPrice ==
    IsUpdate =>
        \A pair \in DOMAIN positions :
            RPos(positions[pair].size) =>
                positions[pair].entry_price = <<last.order.filled_price[1], 1>>

\* C38: in every state of the order lifecycle manager a position of size 0
\* has entry price 0 and total cost 0
C38_EmptyPositionIsZero ==
    \A pair \in DOMAIN positions :
        positions[pair].size = RZero =>
            /\ positions[pair].entry_price = RZero
            /\ positions[pair].total_cost = 0

\* a position bought at 25.00 and sold down to size 1 still carries the
\* cost of the whole buy; a sell of more than it holds empties it
C38_Witness ==
    /\ IsUpdate
    /\ last.order.type = "SELL"
    /\ C12_Old = [entry_price |-> <<2500, 1>>, size |-> <<1, 1>>, total_cost |-> 10000]
    /\ last.order.amount * C12_Old.size[2] > C12_Old.size[1] * last.order.filled_price[1]
    /\ C12_New = EmptyPosition

---------------------------------------------------------------------------
(* Properties of the stop loss and take profit scan, checked under Spec *)

IsScan == last.op = "check_stop_loss_take_profit"

\* the scan left the active orders, the history and the positions as they
\* were
C39_ReadsOnly ==
    IsScan =>
        /\ active_orders = last.pre.active_orders
        /\ order_history = last.pre.order_history
        /\ positions = last.pre.positions

\* two lists of closing orders close the same orders: the same pairs and
\* amounts, at the same price, in the same order
C39_SameClosingOrders(a, b) ==
    /\ Len(a) = Len(b)
    /\ \A k \in DOMAIN a :
          /\ a[k].type = b[k].type
          /\ a[k].pair = b[k].pair
          /\ a[k].amount = b[k].amount
          /\ a[k].price = b[k].price

\* a scan that follows a scan at the same market price returns the closing
\* orders again
C39_RepeatedScan ==
    (IsScan /\ last'.op = "check_stop_loss_take_profit"
       /\ last'.market_data.price = last.market_data.price) =>
        C39_SameClosingOrders(result'.triggered_orders, result.triggered_orders)

\* C39: check_stop_loss_take_profit only reads state: active orders, order
\* history and positions are unchanged, the closing orders are returned
\* and not recorded, so a repeated scan at the same market price returns
\* closing orders for the same filled orders again
C39_ScanChangesNothing == []C39_ReadsOnly /\ [][C39_RepeatedScan]_vars

\* a scan one millisecond after the trade closes the one order there is:
\* the order is still active and the history holds no closing order
C39_Witness ==
    /\ IsScan
    /\ Len(result.triggered_orders) = 1
    /\ result.triggered_orders[1].id = 1
    /\ Len(active_orders) = 1
    /\ Len(order_history) = 1
    /\ order_history[1].id = 0
    /\ order_history[1].status = "filled"

\* the orders of the history that were executed and not cancelled since
C40_Open == {i \in DOMAIN order_history : order_history[i].status # "cancelled"}

\* C40: every order created by execute_trade has an id of its own, so the
\* active set holds one entry for each executed order of the history that
\* was not cancelled, two trades of one clock millisecond included
C40_DistinctIds ==
    /\ \A i, j \in DOMAIN order_history :
          i # j => order_history[i].id # order_history[j].id
    /\ Len(active_orders) = Cardinality(C40_Open)

---------------------------------------------------------------------------
(* Properties of the symbol a sample is recorded under, checked under      *)
(* SpecRouting                                                             *)

\* the samples of the last get_signal call came from a transport opened
\* for the symbol of the call
C32_ListenerKeepsSymbol ==
    (last.op = "get_signal" /\ last.received > 0) => last.stream = Some(last.symbol)

\* the ticker the feed handled last was stored and delivered under the
\* pair it is about, and the entries of the other pairs were left alone
C32_FeedKeepsPair ==
    (feed_event.kind = "ticker" /\ delivered # feed_event.pre.delivered) =>
        /\ delivered[Len(delivered)].pair = feed_event.about
        /\ \A pair \in DOMAIN feed_event.pre.price_data :
              pair # feed_event.about =>
                  price_data[pair] = feed_event.pre.price_data[pair]

\* C32: a sample received on a transport opened or subscribed for a symbol
\* is recorded only under that symbol: it is not inserted into the window
\* or the price entry of another symbol and not delivered to its callbacks,
\* neither when one listener serves get_signal for several symbols in turn
\* nor when one feed subscribes to several pairs
C32_RecordedUnderOwnSymbol == C32_ListenerKeepsSymbol /\ C32_FeedKeepsPair

====
